---- MODULE Spec2Model ----
(***************************************************************************)
(* Model of the ArcGIS REST explorer's discovery client:                   *)
(*   - CacheService (services/cacheService.ts): TTL cache over a           *)
(*     key/value store, every operation an async call on the store;       *)
(*   - ArcGISServiceClient.checkServiceStatus: the status prober;          *)
(*   - ArcGISServiceClient.getCatalog / fetchCatalogLevel / fetchRaw /     *)
(*     getServiceDetails / cancelDiscovery: the catalog walk;              *)
(*   - ArcGISServiceClient.getResourceCatalog / getLayerDetails: the       *)
(*     resource walk, in batches of services.                              *)
(* The specifications share the variables: SpecCache (cache callers and a  *)
(* clock), SpecProbe (the prober applied to every response shape), Spec    *)
(* (one getCatalog call at a time over a small server catalog), SpecPair   *)
(* (two getCatalog calls that may overlap), SpecRes (a                     *)
(* getResourceCatalog call with the getCatalog call inside it), SpecOrder  *)
(* (one walk whose completions interleave freely), SpecFault (the backing  *)
(* store rejects), SpecLive (SpecRes on small catalogs, every pending      *)
(* completion eventually delivered), SpecGate (the single-request          *)
(* operations and clearCache) and SpecExport (the GeoJSON export of        *)
(* components/ResourceTable.tsx).                                          *)
(***************************************************************************)
EXTENDS Integers, Sequences, FiniteSets, TLC

VARIABLES
    store,            \* localforage instance: key -> CacheEntry (partial function)
    now,              \* Date.now()
    cproc,            \* SpecCache: the async CacheService call of each caller
    presp,            \* SpecProbe: the response axios receives for the probe
    pverdict,         \* SpecProbe: <<the ServiceStatus returned>>, <<>> before
    pstart,           \* SpecProbe: <<startTime>> of the probe, <<>> before the call
    psettled,         \* SpecProbe: how the promise of the probe has settled
    catalog,          \* Spec: the server's catalog tree
    abortController,  \* Spec: ArcGISServiceClient.abortController (0 = null)
    aborted,          \* Spec: AbortControllers whose abort() has been called
    nextCtl,          \* Spec: identity of the next AbortController object
    walk,             \* Spec: the getCatalog invocations
    lvl,              \* Spec: the fetchCatalogLevel invocations of each walk
    hist,             \* Spec: history of each walk, read by the claims only
    res,              \* SpecRes: the getResourceCatalog invocation
    gate,             \* SpecGate: the gateway operation or clearCache invocation
    exp               \* SpecExport: the query result and its GeoJSON export

vars == <<store, now, cproc, presp, pverdict, pstart, psettled, catalog,
          abortController,
          aborted, nextCtl, walk, lvl, hist, res, gate, exp>>

cacheVars == <<store, now, cproc>>
probeVars == <<presp, pverdict, pstart, psettled>>
gateVars  == <<gate, exp>>
walkVars  == <<catalog, abortController, aborted, nextCtl, walk, lvl, hist, res>>

(***************************************************************************)
(* Bounds                                                                  *)
(***************************************************************************)
MaxNow == 4           \* SpecCache: the clock runs 0..MaxNow

Null == "null"

(***************************************************************************)
(* CacheService                                                            *)
(***************************************************************************)
TTL_SHORT  == 300000
TTL_MEDIUM == 1800000
TTL_LONG   == 86400000

CacheEntry(data, timestamp, ttl) ==
    [data |-> data, timestamp |-> timestamp, ttl |-> ttl]

\* store.getItem(key): the entry, or null
getItem(s, key) == IF key \in DOMAIN s THEN <<s[key]>> ELSE <<>>

\* store.setItem(key, entry)
setItem(s, key, entry) ==
    [k \in DOMAIN s \cup {key} |-> IF k = key THEN entry ELSE s[k]]

\* store.removeItem(key)
removeItem(s, key) == [k \in DOMAIN s \ {key} |-> s[k]]

\* store.keys()
keys(s) == DOMAIN s

isExpired_flipped(entry, t) == t - entry.timestamp < entry.ttl

\* const isExpired = now - entry.timestamp > entry.ttl
isExpired(entry, t) == t - entry.timestamp > entry.ttl

CProcs    == {"p", "q"}
CacheKeys == {"k1", "k2"}
\* the (data, ttl) arguments the callers pass to set
CacheSets == {<<"v1", 1>>, <<"v2", 2>>}

IdleCall ==
    [pc |-> "idle", op |-> "none", key |-> Null, found |-> <<>>, readAt |-> 0,
     entry |-> <<>>, result |-> Null, list |-> {}, threw |-> FALSE]

\* CacheService.get(key), up to its first await: store.getItem(key) is issued
get_call(p, key) ==
    /\ cproc[p].pc = "idle"
    /\ cproc' = [cproc EXCEPT ![p] = [IdleCall EXCEPT !.pc = "getItem",
                                                      !.op = "get", !.key = key]]
    /\ UNCHANGED <<store, now, probeVars, gateVars, walkVars>>

\* get that reports an expired entry absent but leaves it in the store
get_getItem_noEvict(p) ==
    /\ cproc[p].pc = "getItem"
    /\ LET f == getItem(store, cproc[p].key) IN
         IF f = <<>>
         THEN cproc' = [cproc EXCEPT ![p].pc = "returned", ![p].result = Null]
         ELSE IF isExpired(f[1], now)
              THEN cproc' = [cproc EXCEPT ![p].pc = "returned",
                                          ![p].found = f, ![p].readAt = now,
                                          ![p].result = Null]
              ELSE cproc' = [cproc EXCEPT ![p].pc = "returned",
                                          ![p].found = f, ![p].readAt = now,
                                          ![p].result = f[1].data]
    /\ UNCHANGED <<store, now, probeVars, gateVars, walkVars>>

\* CacheService.get(key), from the result of getItem to the return, or to the
\* await of this.delete(key) for an expired entry
get_getItem(p) ==
    /\ cproc[p].pc = "getItem"
    /\ LET f == getItem(store, cproc[p].key) IN
         IF f = <<>>
         THEN cproc' = [cproc EXCEPT ![p].pc = "returned", ![p].result = Null]
         ELSE IF isExpired(f[1], now)
              THEN cproc' = [cproc EXCEPT ![p].pc = "removeItem",
                                          ![p].found = f, ![p].readAt = now]
              ELSE cproc' = [cproc EXCEPT ![p].pc = "returned",
                                          ![p].found = f, ![p].readAt = now,
                                          ![p].result = f[1].data]
    /\ UNCHANGED <<store, now, probeVars, gateVars, walkVars>>

\* CacheService.delete(key), up to its await: store.removeItem(key) is issued
delete_call(p, key) ==
    /\ cproc[p].pc = "idle"
    /\ cproc' = [cproc EXCEPT ![p] = [IdleCall EXCEPT !.pc = "removeItem",
                                                      !.op = "delete", !.key = key]]
    /\ UNCHANGED <<store, now, probeVars, gateVars, walkVars>>

\* store.removeItem(key) completes: delete returns, and so does a get that
\* awaited it (get returns null)
delete_removeItem(p) ==
    /\ cproc[p].pc = "removeItem"
    /\ store' = removeItem(store, cproc[p].key)
    /\ cproc' = [cproc EXCEPT ![p].pc = "returned", ![p].result = Null]
    /\ UNCHANGED <<now, probeVars, gateVars, walkVars>>

\* CacheService.set(key, data, ttl), up to its await: the entry is stamped with
\* Date.now() and store.setItem(key, entry) is issued
set_call(p, key, data, ttl) ==
    /\ cproc[p].pc = "idle"
    /\ cproc' = [cproc EXCEPT ![p] = [IdleCall EXCEPT
                     !.pc = "setItem", !.op = "set", !.key = key,
                     !.entry = <<CacheEntry(data, now, ttl)>>]]
    /\ UNCHANGED <<store, now, probeVars, gateVars, walkVars>>

\* store.setItem(key, entry) completes: set returns
set_setItem(p) ==
    /\ cproc[p].pc = "setItem"
    /\ store' = setItem(store, cproc[p].key, cproc[p].entry[1])
    /\ cproc' = [cproc EXCEPT ![p].pc = "returned"]
    /\ UNCHANGED <<now, probeVars, gateVars, walkVars>>

\* the caller takes the result of the call
call_return(p) ==
    /\ cproc[p].pc = "returned"
    /\ cproc' = [cproc EXCEPT ![p] = IdleCall]
    /\ UNCHANGED <<store, now, probeVars, gateVars, walkVars>>

\* time passes
Tick ==
    /\ now < MaxNow
    /\ now' = now + 1
    /\ UNCHANGED <<store, cproc, probeVars, gateVars, walkVars>>

InitCache ==
    /\ store = <<>>
    /\ now = 0
    /\ cproc = [p \in CProcs |-> IdleCall]

InitGateIdle ==
    /\ gate = <<>>
    /\ exp = <<>>

InitProbeIdle ==
    /\ presp = Null
    /\ pverdict = <<>>
    /\ pstart = <<>>
    /\ psettled = "idle"
    /\ InitGateIdle

InitWalkIdle ==
    /\ catalog = <<>>
    /\ abortController = 0
    /\ aborted = {}
    /\ nextCtl = 1
    /\ walk = <<>>
    /\ lvl = <<>>
    /\ hist = <<>>
    /\ res = <<>>

NextCache ==
    \/ \E p \in CProcs, k \in CacheKeys : get_call(p, k)
    \/ \E p \in CProcs : get_getItem(p)
    \/ \E p \in CProcs, k \in CacheKeys : delete_call(p, k)
    \/ \E p \in CProcs : delete_removeItem(p)
    \/ \E p \in CProcs, k \in CacheKeys, a \in CacheSets :
           set_call(p, k, a[1], a[2])
    \/ \E p \in CProcs : set_setItem(p)
    \/ \E p \in CProcs : call_return(p)
    \/ Tick

InitCacheSpec == InitCache /\ InitProbeIdle /\ InitWalkIdle

SpecCache == InitCacheSpec /\ [][NextCache]_vars

(***************************************************************************)
(* ArcGISServiceClient.checkServiceStatus                                  *)
(***************************************************************************)
\* HTTP statuses a server answers with
Statuses == {200, 301, 302, 401, 403, 404, 500, 503}

\* response.data: null/''/0 ("null"), {} or [] ("empty"), a non-zero number
\* or true ("number"), a non-empty string ("string"), an object with an error
\* member ("error", with error.code and whether error.message is set), any
\* other non-empty object ("data")
Bodies ==
    {[shape |-> sh, code |-> 0, message |-> FALSE] :
         sh \in {"null", "empty", "number", "string", "data"}}
    \cup {[shape |-> "error", code |-> c, message |-> m] :
             c \in {400, 498, 499}, m \in BOOLEAN}

NetworkError == [kind |-> "neterr", status |-> 0,
                 body |-> [shape |-> "null", code |-> 0, message |-> FALSE]]

ProbeResponses ==
    {[kind |-> "response", status |-> st, body |-> b] : st \in Statuses, b \in Bodies}
    \cup {NetworkError}

\* validateStatus: (status) => status < 500
probeValidateStatus(status) == status < 500

\* axios default validateStatus: status >= 200 && status < 300
defaultValidateStatus(status) == status >= 200 /\ status < 300

\* axios.get settles: resolved with the response when one arrived and
\* validateStatus accepted its status, rejected otherwise
axiosResolves(resp, statusValid) ==
    resp.kind = "response" /\ statusValid

\* !response.data
falsy(body) == body.shape = "null"

\* Object.keys(response.data).length, for a body that is not null: the own
\* enumerable keys of an object, the indices of a string, none for a number
keysLength(body) ==
    IF body.shape \in {"empty", "number"} THEN 0 ELSE 1

\* response.data.error is truthy
hasError(body) == body.shape = "error"

ServiceStatus(accessible, requiresAuth, isEmpty, redirected, error, responseTime) ==
    [accessible |-> accessible, requiresAuth |-> requiresAuth, isEmpty |-> isEmpty,
     redirected |-> redirected, error |-> error, responseTime |-> responseTime]

\* a try block that takes an empty response for an accessible, empty service
checkServiceStatus_try_emptyOk(resp, responseTime) ==
    IF falsy(resp.body) \/ keysLength(resp.body) = 0
    THEN ServiceStatus(TRUE, FALSE, TRUE, FALSE, Null, responseTime)
    ELSE IF hasError(resp.body)
    THEN ServiceStatus(FALSE, resp.body.code = 499 \/ resp.body.code = 498,
                       FALSE, FALSE,
                       IF resp.body.message THEN "error.message"
                                            ELSE "Service error",
                       responseTime)
    ELSE ServiceStatus(TRUE, FALSE, FALSE, FALSE, Null, responseTime)

\* lines 247-280: the try block once axios.get has resolved
checkServiceStatus_try(resp, responseTime) ==
    IF falsy(resp.body) \/ keysLength(resp.body) = 0
    THEN ServiceStatus(FALSE, FALSE, TRUE, FALSE, "Empty response", responseTime)
    ELSE IF hasError(resp.body)
    THEN ServiceStatus(FALSE, resp.body.code = 499 \/ resp.body.code = 498,
                       FALSE, FALSE,
                       IF resp.body.message THEN "error.message"
                                            ELSE "Service error",
                       responseTime)
    ELSE ServiceStatus(TRUE, FALSE, FALSE, FALSE, Null, responseTime)

\* lines 281-317: the catch block, entered with the rejection of axios.get
checkServiceStatus_catch(resp, responseTime) ==
    IF resp.kind = "response" /\ resp.status \in {401, 403}
    THEN ServiceStatus(FALSE, TRUE, FALSE, FALSE, "Authentication required",
                       responseTime)
    ELSE IF resp.kind = "response" /\ resp.status \in {302, 301}
    THEN ServiceStatus(FALSE, TRUE, FALSE, TRUE, "Redirected to login",
                       responseTime)
    ELSE ServiceStatus(FALSE, FALSE, FALSE, FALSE, "axiosError.message",
                       responseTime)

\* lines 236-318: the status checkServiceStatus resolves with when the server
\* answers resp and responseTime has passed since the call
checkServiceStatus(resp, responseTime) ==
    IF axiosResolves(resp, probeValidateStatus(resp.status))
    THEN checkServiceStatus_try(resp, responseTime)
    ELSE checkServiceStatus_catch(resp, responseTime)

\* checkServiceStatus(url) is called: startTime is taken and the request issued
probe_call ==
    /\ psettled = "idle"
    /\ pstart' = <<now>>
    /\ psettled' = "pending"
    /\ UNCHANGED <<presp, pverdict, cacheVars, walkVars, gateVars>>

\* a prober that lets the rejection of axios.get through instead of
\* classifying it
probe_settle_rethrow ==
    /\ psettled = "pending"
    /\ IF axiosResolves(presp, probeValidateStatus(presp.status))
       THEN /\ pverdict' = <<checkServiceStatus(presp, now - pstart[1])>>
            /\ psettled' = "resolved"
       ELSE /\ psettled' = "rejected"
            /\ UNCHANGED pverdict
    /\ UNCHANGED <<presp, pstart, cacheVars, walkVars, gateVars>>

\* the request settles, the server answering presp: whether axios.get
\* resolved or rejected, checkServiceStatus returns a status
probe_settle ==
    /\ psettled = "pending"
    /\ pverdict' = <<checkServiceStatus(presp, now - pstart[1])>>
    /\ psettled' = "resolved"
    /\ UNCHANGED <<presp, pstart, cacheVars, walkVars, gateVars>>

InitProbe ==
    /\ presp \in ProbeResponses
    /\ pverdict = <<>>
    /\ pstart = <<>>
    /\ psettled = "idle"
    /\ InitGateIdle

NextProbe == probe_call \/ probe_settle \/ Tick

InitProbeSpec == InitProbe /\ InitCache /\ InitWalkIdle

SpecProbe == InitProbeSpec /\ [][NextProbe]_vars

(***************************************************************************)
(* ArcGISServiceClient: the catalog walk                                   *)
(***************************************************************************)
MaxJumps == 1         \* how many times the clock jumps past TTL.MEDIUM

\* the getCatalog invocations, in the order of their calls
WalkIds == {1, 2}

\* URLs are sequences of path segments: `${a}/${b}` is a \o <<b>>
BaseUrl == <<"base">>

\* buildServiceUrl: `${baseUrl}/${serviceName}/${serviceType}`
buildServiceUrl(baseUrl, serviceName, serviceType) ==
    baseUrl \o <<serviceName, serviceType>>

\* `${baseUrl}/${folder}`
folderUrl(baseUrl, folder) == baseUrl \o <<folder>>

\* CacheService.KEYS.SERVICE_CATALOG(baseUrl): `catalog:${baseUrl}`
SERVICE_CATALOG(baseUrl) == <<"catalog:">> \o baseUrl

\* CacheService.KEYS.SERVICE_DETAILS(serviceUrl): `service:${serviceUrl}`
SERVICE_DETAILS(serviceUrl) == <<"service:">> \o serviceUrl

ServiceInfo(name, type) == [name |-> name, type |-> type]

\* the catalog trees a server exposes: the root listing's services and
\* folders, and the services (inFolder) and folders (nested) members of each
\* folder's listing
Catalogs ==
    { [services |-> <<ServiceInfo("s1", "MapServer")>>,
       folders  |-> <<>>,
       inFolder |-> <<>>,
       nested   |-> <<>>],
      [services |-> <<ServiceInfo("s1", "MapServer")>>,
       folders  |-> <<"F">>,
       inFolder |-> [f \in {"F"} |-> <<ServiceInfo("s2", "FeatureServer")>>],
       nested   |-> [f \in {"F"} |-> <<"N">>]],
      [services |-> <<>>,
       folders  |-> <<"F", "G">>,
       inFolder |-> [f \in {"F", "G"} |->
                        IF f = "F" THEN <<ServiceInfo("s2", "FeatureServer")>>
                                   ELSE <<>>],
       nested   |-> [f \in {"F", "G"} |-> IF f = "F" THEN <<"N">> ELSE <<>>]] }

MaxFolders == 2       \* the longest folders array of Catalogs

\* optional members are sequences: <<>> is undefined, <<v>> is the value v
\* ArcGISService records
Service(name, type, url, folder, requiresAuth, isEmpty) ==
    [name |-> name, type |-> type, url |-> url, folder |-> folder,
     requiresAuth |-> requiresAuth, isEmpty |-> isEmpty,
     layerCount |-> <<>>, tableCount |-> <<>>, capabilities |-> <<>>,
     layers |-> <<>>, tables |-> <<>>, error |-> <<>>]

\* response.data of a service URL: a descriptor with one layer and one table,
\* and a body that carries only an embedded error object,
\* {error: {code: 499, message: 'Token Required'}}
DescFull == [layers |-> << <<[id |-> 0, name |-> "L0"]>> >>,
             tables |-> << <<[id |-> 1, name |-> "T1"]>> >>,
             capabilities |-> <<"Query">>, error |-> <<>>]
ErrBody  == [layers |-> <<>>, tables |-> <<>>, capabilities |-> <<>>,
             error |-> <<499>>]
DetailBodies == {DescFull, ErrBody}

\* how the request for a service URL settles: resolved with a body, or
\* rejected (network error, a status outside 2xx, a null body)
DetailResponses ==
    {[ok |-> TRUE, data |-> b] : b \in DetailBodies}
    \cup {[ok |-> FALSE, data |-> ErrBody]}

\* details.layers?.length || 0
lengthOr0(arr) == IF arr = <<>> THEN 0 ELSE Len(arr[1])

\* lines 132-137: the service populated from its details
withDetails(service, details) ==
    [service EXCEPT !.layerCount = <<lengthOr0(details.layers)>>,
                    !.tableCount = <<lengthOr0(details.tables)>>,
                    !.capabilities = details.capabilities,
                    !.layers = details.layers,
                    !.tables = details.tables]

\* status.error as an optional member
statusError(status) == IF status.error = Null THEN <<>> ELSE <<status.error>>

\* an annotation that also reports zero layers and tables
withStatus_counts(service, status) ==
    [service EXCEPT !.requiresAuth = status.requiresAuth,
                    !.isEmpty = status.isEmpty,
                    !.error = statusError(status),
                    !.layerCount = <<0>>, !.tableCount = <<0>>]

\* lines 139-142: the service annotated with the prober's verdict
withStatus(service, status) ==
    [service EXCEPT !.requiresAuth = status.requiresAuth,
                    !.isEmpty = status.isEmpty,
                    !.error = statusError(status)]

\* an empty-folder placeholder that is not flagged isEmpty
emptyFolderService_notFlagged(baseUrl, folder) ==
    Service(folder, "Folder", folderUrl(baseUrl, folder), folder, FALSE, FALSE)

\* lines 156-163: the placeholder of an empty folder
emptyFolderService(baseUrl, folder) ==
    Service(folder, "Folder", folderUrl(baseUrl, folder), folder, FALSE, TRUE)

\* lines 170-178: the placeholder of a folder whose listing failed
errorService(baseUrl, folder, status) ==
    [Service(folder, "Folder", folderUrl(baseUrl, folder), folder,
             status.requiresAuth, status.isEmpty)
        EXCEPT !.error = statusError(status)]

\* lines 119-127: the record a service task starts from (folder || 'root')
newService(baseUrl, serviceInfo, folder) ==
    Service(serviceInfo.name, serviceInfo.type,
            buildServiceUrl(baseUrl, serviceInfo.name, serviceInfo.type),
            IF folder = "" THEN "root" ELSE folder, FALSE, FALSE)

\* the responses the prober meets during a walk
WalkProbeResponses ==
    { [kind |-> "response", status |-> 401,
       body |-> [shape |-> "data", code |-> 0, message |-> FALSE]],
      [kind |-> "response", status |-> 200,
       body |-> [shape |-> "error", code |-> 499, message |-> TRUE]],
      [kind |-> "response", status |-> 200,
       body |-> [shape |-> "null", code |-> 0, message |-> FALSE]],
      [kind |-> "response", status |-> 302,
       body |-> [shape |-> "string", code |-> 0, message |-> FALSE]],
      NetworkError }

\* CacheService.get seen from a walk, as one step: the data of an unexpired
\* entry, <<>> for a miss
cacheGet(s, key, t) ==
    IF key \in DOMAIN s /\ ~isExpired(s[key], t) THEN <<s[key].data>> ELSE <<>>

\* the store after that get: an expired entry is removed
cacheGetStore(s, key, t) ==
    IF key \in DOMAIN s /\ isExpired(s[key], t) THEN removeItem(s, key) ELSE s

\* a fetchCatalogLevel invocation
NoLevel == [pc |-> "unused", sig |-> 0, tasks |-> <<>>, probed |-> <<>>,
            status |-> <<>>, out |-> <<>>]

\* a getCatalog invocation
IdleWalk ==
    [pc |-> "idle", useCache |-> FALSE, services |-> <<>>, sig |-> 0,
     folders |-> <<>>, stamp |-> 0, error |-> Null, fromCache |-> FALSE,
     progress |-> <<>>]

\* a call onProgress(current, total, message)
Progress(current, total, message) == <<current, total, message>>

\* what the claims need to know of a walk's past
NoHist == [rootRequests |-> 0, rootFailed |-> FALSE, cancelledAt |-> "never",
           after |-> {}, readAt |-> 0, cause |-> "none", cacheFailed |-> FALSE]

\* folder argument of level i of a walk: '' for the root (level 0)
levelFolder(i) == IF i = 0 THEN "" ELSE catalog.folders[i]

\* how a request issued with signal sig can settle now
Outcomes(sig) == IF sig \in aborted THEN {"cancel"} ELSE {"ok", "fail"}

InFlight(w) == walk[w].pc \in {"rootLevel", "root2", "folders", "cacheSet"}

\* a service task of fetchCatalogLevel (lines 118-146), at the await of
\* getServiceDetails' CacheService.get
newTask(baseUrl, serviceInfo, folder) ==
    [pc |-> "cacheGet", svc |-> newService(baseUrl, serviceInfo, folder),
     data |-> <<>>, stamp |-> 0, probed |-> <<>>, status |-> <<>>]

\* lines 38-45 and 111-114, 193-198: the walk proper begins: a new
\* AbortController replaces the shared one, onProgress(0, 1) is called, and
\* fetchCatalogLevel(baseUrl, '') issues the first request for the root
\* listing with its signal
StartWalk(w, useCache, h) ==
    /\ abortController' = nextCtl
    /\ nextCtl' = nextCtl + 1
    /\ walk' = [walk EXCEPT ![w] =
                 [IdleWalk EXCEPT
                    !.pc = "rootLevel", !.useCache = useCache,
                    !.progress = <<Progress(0, 1, "Fetching root catalog...")>>]]
    /\ lvl' = [lvl EXCEPT ![w] =
                 [i \in 0..MaxFolders |->
                    IF i = 0 THEN [NoLevel EXCEPT !.pc = "listing", !.sig = nextCtl]
                             ELSE NoLevel]]
    /\ hist' = [v \in WalkIds |->
                  IF v = w
                  THEN [h EXCEPT !.rootRequests = @ + 1]
                  ELSE hist[v]]
    /\ UNCHANGED aborted

RECURSIVE flatten(_)
\* services.push(...result.value) for each result in turn
flatten(lists) ==
    IF lists = <<>> THEN <<>> ELSE Head(lists) \o flatten(Tail(lists))

\* lines 74-80, 90: the merged list is complete: onProgress(1, 1) is called;
\* with useCache the entry is stamped and CacheService.set is called,
\* otherwise the list is returned
finished(wr, services) ==
    IF wr.useCache
    THEN [wr EXCEPT !.pc = "cacheSet", !.services = services, !.stamp = now,
                    !.progress = Append(@, Progress(1, 1, "Complete"))]
    ELSE [wr EXCEPT !.pc = "resolved", !.services = services,
                    !.progress = Append(@, Progress(1, 1, "Complete"))]

\* a level that pushes the service of each task when the task settles
fetchCatalogLevel_collect_asSettled(L) ==
    IF L.pc = "services"
    THEN LET fresh == SelectSeq([j \in DOMAIN L.tasks |-> L.tasks[j]],
                                LAMBDA t : /\ t.pc = "done"
                                           /\ \A n \in DOMAIN L.out :
                                                L.out[n].url # t.svc.url)
             out   == L.out \o [n \in DOMAIN fresh |-> fresh[n].svc]
         IN [L EXCEPT !.out = out,
                      !.pc = IF \A j \in DOMAIN L.tasks : L.tasks[j].pc = "done"
                             THEN "done" ELSE @]
    ELSE L

\* a level that waits for every task to have got its details (Promise.all
\* over tasks that would reject): it never returns once a task went to the
\* prober
fetchCatalogLevel_collect_allFulfilled(L) ==
    IF L.pc = "services"
         /\ \A j \in DOMAIN L.tasks : L.tasks[j].pc = "done" /\ L.tasks[j].probed = <<>>
    THEN [L EXCEPT !.pc = "done", !.out = [j \in DOMAIN L.tasks |-> L.tasks[j].svc]]
    ELSE L

\* lines 148-153, 183: Promise.allSettled over the service tasks of a level:
\* once every task has settled the fulfilled services are pushed in the
\* order of the listing and fetchCatalogLevel returns
fetchCatalogLevel_collect(L) ==
    IF L.pc = "services" /\ \A j \in DOMAIN L.tasks : L.tasks[j].pc = "done"
    THEN [L EXCEPT !.pc = "done", !.out = [j \in DOMAIN L.tasks |-> L.tasks[j].svc]]
    ELSE L

\* a getCatalog that pushes onto one list shared by all invocations: what
\* the first invocation's root level returned is in every list
getCatalog_afterRoot_shared(wr, LW) ==
    [wr EXCEPT !.pc = "root2", !.services = lvl[1][0].out \o @ \o LW[0].out,
               !.sig = abortController]

\* lines 45-49: fetchCatalogLevel(baseUrl, '') has returned: its services are
\* pushed and the root listing is requested a second time, with the signal
\* of whatever AbortController is the shared one now
getCatalog_afterRoot(wr, LW) ==
    [wr EXCEPT !.pc = "root2", !.services = @ \o LW[0].out,
               !.sig = abortController]

\* a merge that puts the folders' records in front of the root's
getCatalog_folders_first(wr, LW) ==
    finished(wr, flatten([i \in 1..Len(wr.folders) |-> LW[i].out]) \o wr.services)

\* lines 63-74: Promise.allSettled over the folder levels: the fulfilled
\* lists are pushed in the order of the folders array
getCatalog_folders(wr, LW) ==
    finished(wr, wr.services \o flatten([i \in 1..Len(wr.folders) |-> LW[i].out]))

\* the continuations of getCatalog that run, without a further await, once
\* the levels of the walk are LW
getCatalog_continue(wr, LW) ==
    IF wr.pc = "rootLevel" /\ LW[0].pc = "done"
    THEN getCatalog_afterRoot(wr, LW)
    ELSE IF wr.pc = "folders" /\ \A i \in 1..Len(wr.folders) : LW[i].pc = "done"
    THEN getCatalog_folders(wr, LW)
    ELSE wr

\* an await of level i of walk w completes and leaves the level as L: the
\* continuations that were waiting for it run in the same turn of the event
\* loop (Promise.allSettled of the level, then getCatalog)
LevelEvent(w, i, L, rootFail) ==
    LET LW == [lvl[w] EXCEPT ![i] = fetchCatalogLevel_collect(L)] IN
      /\ lvl' = [lvl EXCEPT ![w] = LW]
      /\ walk' = [walk EXCEPT ![w] = getCatalog_continue(@, LW)]
      /\ hist' = [hist EXCEPT
             ![w].rootRequests =
                 IF walk[w].pc = "rootLevel" /\ LW[0].pc = "done" THEN @ + 1 ELSE @,
             ![w].rootFailed = @ \/ rootFail]

\* getCatalog(baseUrl, useCache) is called (lines 23-31); walks are numbered
\* in the order of their calls
getCatalog_call(w, useCache) ==
    /\ walk[w].pc = "idle"
    /\ \A v \in WalkIds : v < w => walk[v].pc # "idle"
    /\ LET h == [hist[w] EXCEPT
                   !.after = {v \in WalkIds : walk[v].pc = "resolved"}] IN
         IF useCache
         THEN /\ walk' = [walk EXCEPT ![w] = [IdleWalk EXCEPT !.pc = "cacheGet",
                                                              !.useCache = TRUE]]
              /\ hist' = [hist EXCEPT ![w] = h]
              /\ UNCHANGED <<abortController, nextCtl, lvl, aborted>>
         ELSE StartWalk(w, FALSE, h)
    /\ UNCHANGED <<store, now, catalog, cproc, probeVars, gateVars, res>>

\* lines 31-39: CacheService.get(catalog:<baseUrl>) returns: a hit is returned
\* as it is, a miss starts the walk
getCatalog_cacheGet(w) ==
    /\ walk[w].pc = "cacheGet"
    /\ LET cached == cacheGet(store, SERVICE_CATALOG(BaseUrl), now) IN
         /\ store' = cacheGetStore(store, SERVICE_CATALOG(BaseUrl), now)
         /\ IF cached # <<>>
            THEN /\ walk' = [walk EXCEPT ![w].pc = "resolved",
                                         ![w].services = cached[1],
                                         ![w].fromCache = TRUE]
                 /\ hist' = [hist EXCEPT ![w].readAt = now]
                 /\ UNCHANGED <<abortController, nextCtl, lvl, aborted>>
            ELSE StartWalk(w, TRUE, [hist[w] EXCEPT !.readAt = now])
    /\ UNCHANGED <<now, catalog, cproc, probeVars, gateVars, res>>

\* lines 96-101
cancelDiscovery ==
    /\ abortController # 0
    /\ aborted' = aborted \cup {abortController}
    /\ abortController' = 0
    /\ hist' = [w \in WalkIds |->
                  IF InFlight(w) /\ hist[w].cancelledAt = "never"
                  THEN [hist[w] EXCEPT !.cancelledAt = walk[w].pc]
                  ELSE hist[w]]
    /\ UNCHANGED <<store, now, catalog, nextCtl, walk, lvl, cproc, probeVars, gateVars, res>>

\* lines 113-116, 154-168: fetchRaw of a level settles. A listing with
\* services starts one task per service, an empty folder yields its
\* placeholder; a failed (or aborted) folder listing goes on to the prober,
\* a failed root listing yields the empty list. The folders member of the
\* listing (catalog.nested for a folder) is not read
fetchCatalogLevel_listing(w, i, outcome) ==
    /\ lvl[w][i].pc = "listing"
    /\ outcome \in Outcomes(lvl[w][i].sig)
    /\ LET folder  == levelFolder(i)
           listing == IF i = 0 THEN catalog.services ELSE catalog.inFolder[folder]
           L       == lvl[w][i]
       IN
         LevelEvent(w, i,
              IF outcome = "ok"
              THEN IF Len(listing) > 0
                   THEN [L EXCEPT !.pc = "services",
                                  !.tasks = [j \in 1..Len(listing) |->
                                               newTask(BaseUrl, listing[j], folder)]]
                   ELSE IF folder # ""
                   THEN [L EXCEPT !.pc = "done",
                                  !.out = <<emptyFolderService(BaseUrl, folder)>>]
                   ELSE [L EXCEPT !.pc = "done"]
              ELSE IF folder # ""
                   THEN [L EXCEPT !.pc = "probe"]
                   ELSE [L EXCEPT !.pc = "done"],
              i = 0 /\ outcome = "fail")
    /\ UNCHANGED <<store, now, catalog, abortController, aborted, nextCtl,
                   cproc, probeVars, gateVars, res>>

\* a failed folder listing that is probed but contributes no placeholder
fetchCatalogLevel_probe_dropped(w, i, resp) ==
    /\ lvl[w][i].pc = "probe"
    /\ LevelEvent(w, i,
                  [lvl[w][i] EXCEPT !.pc = "done", !.probed = <<resp>>,
                                    !.status = <<checkServiceStatus(resp, 0)>>],
                  FALSE)
    /\ UNCHANGED <<store, now, catalog, abortController, aborted, nextCtl,
                   cproc, probeVars, gateVars, res>>

\* lines 169-179: the prober's verdict on the folder URL becomes the folder's
\* placeholder
fetchCatalogLevel_probe(w, i, resp) ==
    /\ lvl[w][i].pc = "probe"
    /\ LevelEvent(w, i,
                  [lvl[w][i] EXCEPT
                       !.pc = "done", !.probed = <<resp>>,
                       !.status = <<checkServiceStatus(resp, 0)>>,
                       !.out = <<errorService(BaseUrl, levelFolder(i),
                                              checkServiceStatus(resp, 0))>>],
                  FALSE)
    /\ UNCHANGED <<store, now, catalog, abortController, aborted, nextCtl,
                   cproc, probeVars, gateVars, res>>

\* lines 131, 207-219: getServiceDetails' cache lookup returns: a hit
\* populates the service, a miss issues the request for the service URL
service_cacheGet(w, i, j) ==
    /\ lvl[w][i].pc = "services"
    /\ lvl[w][i].tasks[j].pc = "cacheGet"
    /\ LET t      == lvl[w][i].tasks[j]
           key    == SERVICE_DETAILS(t.svc.url)
           cached == cacheGet(store, key, now)
       IN
         /\ store' = cacheGetStore(store, key, now)
         /\ LevelEvent(w, i,
              [lvl[w][i] EXCEPT !.tasks[j] =
                 IF cached # <<>>
                 THEN [t EXCEPT !.pc = "done", !.data = cached,
                                !.svc = withDetails(t.svc, cached[1])]
                 ELSE [t EXCEPT !.pc = "detail"]],
              FALSE)
    /\ UNCHANGED <<now, catalog, abortController, aborted, nextCtl,
                   cproc, probeVars, gateVars, res>>

\* lines 216-227, 138-139: the request for the service URL settles: a body
\* is stamped for the cache (CacheService.set is called), a failure goes on
\* to the prober. The request carries no abort signal
service_detail(w, i, j, resp) ==
    /\ lvl[w][i].pc = "services"
    /\ lvl[w][i].tasks[j].pc = "detail"
    /\ LevelEvent(w, i,
         [lvl[w][i] EXCEPT !.tasks[j] =
            IF resp.ok
            THEN [@ EXCEPT !.pc = "cacheSet", !.data = <<resp.data>>, !.stamp = now]
            ELSE [@ EXCEPT !.pc = "probe"]],
         FALSE)
    /\ UNCHANGED <<store, now, catalog, abortController, aborted, nextCtl,
                   cproc, probeVars, gateVars, res>>

\* lines 227-230, 132-137: CacheService.set(service:<url>, data, TTL.LONG)
\* returns, and the service is populated from the details
service_cacheSet(w, i, j) ==
    /\ lvl[w][i].pc = "services"
    /\ lvl[w][i].tasks[j].pc = "cacheSet"
    /\ LET t == lvl[w][i].tasks[j] IN
         /\ store' = setItem(store, SERVICE_DETAILS(t.svc.url),
                             CacheEntry(t.data[1], t.stamp, TTL_LONG))
         /\ LevelEvent(w, i,
              [lvl[w][i] EXCEPT !.tasks[j] =
                 [t EXCEPT !.pc = "done", !.svc = withDetails(t.svc, t.data[1])]],
              FALSE)
    /\ UNCHANGED <<now, catalog, abortController, aborted, nextCtl,
                   cproc, probeVars, gateVars, res>>

\* lines 139-145: the prober's verdict on the service URL annotates the service
service_probe(w, i, j, resp) ==
    /\ lvl[w][i].pc = "services"
    /\ lvl[w][i].tasks[j].pc = "probe"
    /\ LevelEvent(w, i,
         [lvl[w][i] EXCEPT !.tasks[j] =
            [@ EXCEPT !.pc = "done", !.probed = <<resp>>,
                      !.status = <<checkServiceStatus(resp, 0)>>,
                      !.svc = withStatus(@, checkServiceStatus(resp, 0))]],
         FALSE)
    /\ UNCHANGED <<store, now, catalog, abortController, aborted, nextCtl,
                   cproc, probeVars, gateVars, res>>

\* a catch block that reports every failure as a cancellation
getCatalog_catch_allCancelled(outcome) == "Discovery cancelled"

\* lines 81-88: what getCatalog throws for a request that was aborted
\* (axios.isCancel) and for one that failed (the error itself, rethrown)
getCatalog_catch(outcome) ==
    IF outcome = "cancel" THEN "Discovery cancelled" ELSE "Network Error"

\* a walk that goes into the first folder only
rootFolders_first(catalogResponse) ==
    IF catalogResponse.folders = <<>> THEN <<>> ELSE <<Head(catalogResponse.folders)>>

\* lines 50-51: the folders the walk goes into: the folders member of the
\* root response
rootFolders(catalogResponse) == catalogResponse.folders

\* lines 49-61, 81-88: the second root request settles. A failure rejects
\* getCatalog (as 'Discovery cancelled' when axios.isCancel); a listing with
\* folders starts fetchCatalogLevel for each of them, each issuing its
\* request with the signal of the shared AbortController
getCatalog_root2(w, outcome) ==
    /\ walk[w].pc = "root2"
    /\ outcome \in Outcomes(walk[w].sig)
    /\ IF outcome = "ok"
       THEN IF Len(rootFolders(catalog)) > 0
            THEN /\ walk' = [walk EXCEPT
                              ![w].pc = "folders",
                              ![w].folders = rootFolders(catalog),
                              ![w].progress =
                                  Append(@, Progress(1, Len(rootFolders(catalog)) + 1,
                                                     "Processing folders..."))]
                 /\ lvl' = [lvl EXCEPT ![w] =
                      [i \in 0..MaxFolders |->
                         IF i \in 1..Len(rootFolders(catalog))
                         THEN [NoLevel EXCEPT !.pc = "listing",
                                              !.sig = abortController]
                         ELSE lvl[w][i]]]
            ELSE /\ walk' = [walk EXCEPT ![w] = finished(@, @.services)]
                 /\ UNCHANGED lvl
       ELSE /\ walk' = [walk EXCEPT ![w].pc = "rejected",
                                    ![w].error = getCatalog_catch(outcome)]
            /\ UNCHANGED lvl
    /\ hist' = [hist EXCEPT ![w].rootFailed = @ \/ outcome = "fail",
                            ![w].cause = IF outcome = "ok" THEN @ ELSE outcome]
    /\ UNCHANGED <<store, now, catalog, abortController, aborted, nextCtl,
                   cproc, probeVars, gateVars, res>>

\* a write of the list with the TTL of the descriptors
getCatalog_cacheSet_long(w) ==
    /\ walk[w].pc = "cacheSet"
    /\ store' = setItem(store, SERVICE_CATALOG(BaseUrl),
                        CacheEntry(walk[w].services, walk[w].stamp, TTL_LONG))
    /\ walk' = [walk EXCEPT ![w].pc = "resolved"]
    /\ UNCHANGED <<now, catalog, abortController, aborted, nextCtl, lvl, hist,
                   cproc, probeVars, gateVars, res>>

\* lines 79, 90: CacheService.set(catalog:<baseUrl>, services, TTL.MEDIUM)
\* returns and getCatalog returns the list
getCatalog_cacheSet(w) ==
    /\ walk[w].pc = "cacheSet"
    /\ store' = setItem(store, SERVICE_CATALOG(BaseUrl),
                        CacheEntry(walk[w].services, walk[w].stamp, TTL_MEDIUM))
    /\ walk' = [walk EXCEPT ![w].pc = "resolved"]
    /\ UNCHANGED <<now, catalog, abortController, aborted, nextCtl, lvl, hist,
                   cproc, probeVars, gateVars, res>>

\* time passes: more than TTL.MEDIUM (and less than TTL.LONG) at once
Elapse ==
    /\ now < MaxJumps * (TTL_MEDIUM + 1)
    /\ now' = now + TTL_MEDIUM + 1
    /\ UNCHANGED <<store, cproc, probeVars, gateVars, walkVars>>

\* what the persistent store can hold when the page is opened: entries an
\* earlier session wrote at time 0
PriorList == <<withDetails(newService(BaseUrl, ServiceInfo("s1", "MapServer"), ""),
                           DescFull)>>

PriorCatalogEntries ==
    {<<>>, [k \in {SERVICE_CATALOG(BaseUrl)} |-> CacheEntry(PriorList, 0, TTL_MEDIUM)]}

PriorServiceEntries(name, type) ==
    {<<>>} \cup
    {[k \in {SERVICE_DETAILS(buildServiceUrl(BaseUrl, name, type))} |->
         CacheEntry(b, 0, TTL_LONG)] : b \in DetailBodies}

\* the union of two stores with disjoint keys
merge(s1, s2) ==
    [k \in DOMAIN s1 \cup DOMAIN s2 |-> IF k \in DOMAIN s1 THEN s1[k] ELSE s2[k]]

PriorStores ==
    {merge(c, merge(a, b)) : c \in PriorCatalogEntries,
                             a \in PriorServiceEntries("s1", "MapServer"),
                             b \in PriorServiceEntries("s2", "FeatureServer")}

InitWalk ==
    /\ abortController = 0
    /\ aborted = {}
    /\ nextCtl = 1
    /\ walk = [w \in WalkIds |-> IdleWalk]
    /\ lvl = [w \in WalkIds |-> [i \in 0..MaxFolders |-> NoLevel]]
    /\ hist = [w \in WalkIds |-> NoHist]
    /\ res = <<>>

\* one getCatalog call at a time, over every catalog and every prior store
Init ==
    /\ InitWalk /\ InitProbeIdle
    /\ catalog \in Catalogs
    /\ store \in PriorStores
    /\ now = 0
    /\ cproc = [p \in CProcs |-> IdleCall]

\* the steps of the walks W, the prober meeting the responses probes and the
\* service URLs answering with details
NextWalks(W, probes, details) ==
    \/ \E w \in W, useCache \in BOOLEAN : getCatalog_call(w, useCache)
    \/ \E w \in W : getCatalog_cacheGet(w)
    \/ cancelDiscovery
    \/ \E w \in W, i \in 0..MaxFolders, o \in {"ok", "fail", "cancel"} :
           fetchCatalogLevel_listing(w, i, o)
    \/ \E w \in W, i \in 1..MaxFolders, r \in probes :
           fetchCatalogLevel_probe(w, i, r)
    \/ \E w \in W, i \in 0..MaxFolders :
         \E j \in DOMAIN lvl[w][i].tasks : service_cacheGet(w, i, j)
    \/ \E w \in W, i \in 0..MaxFolders :
         \E j \in DOMAIN lvl[w][i].tasks, r \in details : service_detail(w, i, j, r)
    \/ \E w \in W, i \in 0..MaxFolders :
         \E j \in DOMAIN lvl[w][i].tasks : service_cacheSet(w, i, j)
    \/ \E w \in W, i \in 0..MaxFolders :
         \E j \in DOMAIN lvl[w][i].tasks, r \in probes : service_probe(w, i, j, r)
    \/ \E w \in W, o \in {"ok", "fail", "cancel"} : getCatalog_root2(w, o)
    \/ \E w \in W : getCatalog_cacheSet(w)
    \/ Elapse

Next == NextWalks({1}, WalkProbeResponses, DetailResponses)

Spec == Init /\ [][Next]_vars

\* two getCatalog calls, one after the other or overlapping, from an empty
\* store, over the catalogs without and with one folder
PairCatalogs == {c \in Catalogs : Len(c.folders) <= 1}

PairProbeResponses == {NetworkError}

PairDetailResponses == {[ok |-> TRUE, data |-> DescFull], [ok |-> FALSE, data |-> ErrBody]}

InitPair ==
    /\ InitWalk /\ InitProbeIdle /\ InitCache
    /\ catalog \in PairCatalogs

NextPair == NextWalks(WalkIds, PairProbeResponses, PairDetailResponses)

SpecPair == InitPair /\ [][NextPair]_vars

(***************************************************************************)
(* The backing store fails                                                 *)
(***************************************************************************)
\* a CacheService method that lets the rejection of the store through
cacheCatch_rethrow(c) == [c EXCEPT !.pc = "rejected", !.threw = TRUE]

\* cacheService.ts lines 35-38, 53-55, 64-66, 75-77, 86-89: the catch block
\* of a CacheService method logs the error; get returns null, keys returns
\* [], set, delete and clear return
cacheCatch(c) ==
    [c EXCEPT !.pc = "returned", !.threw = TRUE, !.result = Null, !.list = {}]

\* store.getItem(key) rejects
get_getItem_throws(p) ==
    /\ cproc[p].pc = "getItem"
    /\ cproc' = [cproc EXCEPT ![p] = cacheCatch(@)]
    /\ UNCHANGED <<store, now, probeVars, gateVars, walkVars>>

\* store.removeItem(key) rejects, in delete or in the delete that get awaits
delete_removeItem_throws(p) ==
    /\ cproc[p].pc = "removeItem"
    /\ cproc' = [cproc EXCEPT ![p] = cacheCatch(@)]
    /\ UNCHANGED <<store, now, probeVars, gateVars, walkVars>>

\* store.setItem(key, entry) rejects
set_setItem_throws(p) ==
    /\ cproc[p].pc = "setItem"
    /\ cproc' = [cproc EXCEPT ![p] = cacheCatch(@)]
    /\ UNCHANGED <<store, now, probeVars, gateVars, walkVars>>

\* CacheService.clear(), up to its await: store.clear() is issued
clear_call(p) ==
    /\ cproc[p].pc = "idle"
    /\ cproc' = [cproc EXCEPT ![p] = [IdleCall EXCEPT !.pc = "clear", !.op = "clear"]]
    /\ UNCHANGED <<store, now, probeVars, gateVars, walkVars>>

\* store.clear() completes
clear_clear(p) ==
    /\ cproc[p].pc = "clear"
    /\ store' = <<>>
    /\ cproc' = [cproc EXCEPT ![p].pc = "returned"]
    /\ UNCHANGED <<now, probeVars, gateVars, walkVars>>

\* store.clear() rejects
clear_throws(p) ==
    /\ cproc[p].pc = "clear"
    /\ cproc' = [cproc EXCEPT ![p] = cacheCatch(@)]
    /\ UNCHANGED <<store, now, probeVars, gateVars, walkVars>>

\* CacheService.keys(), up to its await: store.keys() is issued
keys_call(p) ==
    /\ cproc[p].pc = "idle"
    /\ cproc' = [cproc EXCEPT ![p] = [IdleCall EXCEPT !.pc = "keys", !.op = "keys"]]
    /\ UNCHANGED <<store, now, probeVars, gateVars, walkVars>>

\* store.keys() completes
keys_keys(p) ==
    /\ cproc[p].pc = "keys"
    /\ cproc' = [cproc EXCEPT ![p].pc = "returned", ![p].list = keys(store)]
    /\ UNCHANGED <<store, now, probeVars, gateVars, walkVars>>

\* store.keys() rejects
keys_throws(p) ==
    /\ cproc[p].pc = "keys"
    /\ cproc' = [cproc EXCEPT ![p] = cacheCatch(@)]
    /\ UNCHANGED <<store, now, probeVars, gateVars, walkVars>>

\* lines 31-45: the store rejects during getCatalog's CacheService.get, which
\* returns null: the walk begins as after a miss
getCatalog_cacheGet_throws(w) ==
    /\ walk[w].pc = "cacheGet"
    /\ StartWalk(w, TRUE, [hist[w] EXCEPT !.cacheFailed = TRUE])
    /\ UNCHANGED <<store, now, catalog, cproc, probeVars, gateVars, res>>

\* lines 79, 90: the store rejects during getCatalog's CacheService.set,
\* which returns: getCatalog returns the list
getCatalog_cacheSet_throws(w) ==
    /\ walk[w].pc = "cacheSet"
    /\ walk' = [walk EXCEPT ![w].pc = "resolved"]
    /\ hist' = [hist EXCEPT ![w].cacheFailed = TRUE]
    /\ UNCHANGED <<store, now, catalog, abortController, aborted, nextCtl, lvl,
                   cproc, probeVars, gateVars, res>>

\* lines 209-216: the store rejects during getServiceDetails'
\* CacheService.get, which returns null: the request is issued
service_cacheGet_throws(w, i, j) ==
    /\ lvl[w][i].pc = "services"
    /\ lvl[w][i].tasks[j].pc = "cacheGet"
    /\ LevelEvent(w, i,
         [lvl[w][i] EXCEPT !.tasks[j] = [@ EXCEPT !.pc = "detail"]], FALSE)
    /\ UNCHANGED <<store, now, catalog, abortController, aborted, nextCtl,
                   cproc, probeVars, gateVars, res>>

\* lines 227-230, 132-137: the store rejects during getServiceDetails'
\* CacheService.set, which returns: the service is populated
service_cacheSet_throws(w, i, j) ==
    /\ lvl[w][i].pc = "services"
    /\ lvl[w][i].tasks[j].pc = "cacheSet"
    /\ LET t == lvl[w][i].tasks[j] IN
         LevelEvent(w, i,
              [lvl[w][i] EXCEPT !.tasks[j] =
                 [t EXCEPT !.pc = "done", !.svc = withDetails(t.svc, t.data[1])]],
              FALSE)
    /\ UNCHANGED <<store, now, catalog, abortController, aborted, nextCtl,
                   cproc, probeVars, gateVars, res>>

\* the caller of CacheService and the walk of these runs
FaultCaller == "p"
FaultWalk == 1

\* the key the caller uses (not a key of the walk)
FaultKeys == {<<"k1">>}

\* a server with one service, a store that holds its catalog entry or nothing
InitFault ==
    /\ InitWalk /\ InitProbeIdle
    /\ catalog \in {c \in Catalogs : c.folders = <<>>}
    /\ store \in PriorCatalogEntries
    /\ now = 0
    /\ cproc = [p \in CProcs |-> IdleCall]

\* no getCatalog call has been made yet
BeforeWalk == walk[FaultWalk].pc = "idle"

\* the methods of CacheService called one after the other until getCatalog
\* is called, then that getCatalog call, while any operation of the store may
\* reject
NextFault ==
    \/ BeforeWalk /\ \E k \in FaultKeys : get_call(FaultCaller, k)
    \/ get_getItem(FaultCaller)
    \/ get_getItem_throws(FaultCaller)
    \/ BeforeWalk /\ \E k \in FaultKeys : delete_call(FaultCaller, k)
    \/ delete_removeItem(FaultCaller)
    \/ delete_removeItem_throws(FaultCaller)
    \/ BeforeWalk /\ \E k \in FaultKeys, a \in CacheSets :
                        set_call(FaultCaller, k, a[1], a[2])
    \/ set_setItem(FaultCaller)
    \/ set_setItem_throws(FaultCaller)
    \/ BeforeWalk /\ clear_call(FaultCaller)
    \/ clear_clear(FaultCaller)
    \/ clear_throws(FaultCaller)
    \/ BeforeWalk /\ keys_call(FaultCaller)
    \/ keys_keys(FaultCaller)
    \/ keys_throws(FaultCaller)
    \/ call_return(FaultCaller)
    \/ BeforeWalk /\ Tick
    \/ \E useCache \in BOOLEAN : getCatalog_call(FaultWalk, useCache)
    \/ getCatalog_cacheGet(FaultWalk)
    \/ getCatalog_cacheGet_throws(FaultWalk)
    \/ \E o \in {"ok", "fail"} : fetchCatalogLevel_listing(FaultWalk, 0, o)
    \/ \E j \in DOMAIN lvl[FaultWalk][0].tasks : service_cacheGet(FaultWalk, 0, j)
    \/ \E j \in DOMAIN lvl[FaultWalk][0].tasks : service_cacheGet_throws(FaultWalk, 0, j)
    \/ \E j \in DOMAIN lvl[FaultWalk][0].tasks, r \in PairDetailResponses :
           service_detail(FaultWalk, 0, j, r)
    \/ \E j \in DOMAIN lvl[FaultWalk][0].tasks : service_cacheSet(FaultWalk, 0, j)
    \/ \E j \in DOMAIN lvl[FaultWalk][0].tasks : service_cacheSet_throws(FaultWalk, 0, j)
    \/ \E j \in DOMAIN lvl[FaultWalk][0].tasks, r \in PairProbeResponses :
           service_probe(FaultWalk, 0, j, r)
    \/ \E o \in {"ok", "fail"} : getCatalog_root2(FaultWalk, o)
    \/ getCatalog_cacheSet(FaultWalk)
    \/ getCatalog_cacheSet_throws(FaultWalk)

SpecFault == InitFault /\ [][NextFault]_vars

\* a server whose listings hold several services: two at the root, two in
\* the first of its two folders
OrderCatalog ==
    [services |-> <<ServiceInfo("s1", "MapServer"), ServiceInfo("s3", "MapServer")>>,
     folders  |-> <<"F", "G">>,
     inFolder |-> [f \in {"F", "G"} |->
                      IF f = "F" THEN <<ServiceInfo("s2", "FeatureServer"),
                                        ServiceInfo("s4", "FeatureServer")>>
                                 ELSE <<>>],
     nested   |-> [f \in {"F", "G"} |-> <<>>]]

\* one getCatalog call over that server, from an empty store
InitOrder ==
    /\ InitWalk /\ InitProbeIdle /\ InitCache
    /\ catalog = OrderCatalog

NextOrder == NextWalks({1}, PairProbeResponses, PairDetailResponses)

SpecOrder == InitOrder /\ [][NextOrder]_vars

(***************************************************************************)
(* ArcGISServiceClient.getResourceCatalog                                  *)
(***************************************************************************)
\* const batchSize = 10
batchSize == 10

MaxServices == 25     \* the largest number of eligible services

\* the getCatalog invocation that getResourceCatalog awaits
InnerWalk == 1

Min(a, b) == IF a < b THEN a ELSE b

\* baseUrl + '_resources'
resourcesUrl(baseUrl) ==
    [baseUrl EXCEPT ![Len(baseUrl)] = @ \o "_resources"]

\* CacheService.KEYS.LAYER_DETAILS(serviceUrl, layerId):
\* `layer:${serviceUrl}:${layerId}`
LAYER_DETAILS(serviceUrl, layerId) ==
    <<"layer:">> \o serviceUrl \o <<":" \o ToString(layerId)>>

\* `${service.url}/${layer.id}`
resourceUrl(serviceUrl, id) == serviceUrl \o <<ToString(id)>>

\* response.data of a layer or table URL
LayerFull == [fields |-> << <<"OBJECTID", "NAME">> >>]

\* how the request for a layer or table URL settles
LayerResponses == {[ok |-> TRUE, data |-> LayerFull], [ok |-> FALSE, data |-> LayerFull]}

\* ArcGISResource records
Resource(item, type, service, fieldCount, fields, requiresAuth, error) ==
    [id |-> item.id, name |-> item.name, type |-> type,
     serviceName |-> service.name, serviceType |-> service.type,
     serviceUrl |-> service.url,
     resourceUrl |-> resourceUrl(service.url, item.id),
     folder |-> service.folder, fieldCount |-> fieldCount, fields |-> fields,
     requiresAuth |-> requiresAuth, error |-> error]

\* lines 489-505, 531-546: the record of a layer or table whose details arrived
fullResource(item, type, service, details) ==
    Resource(item, type, service,
             IF details.fields = <<>> THEN <<>> ELSE <<Len(details.fields[1])>>,
             details.fields, FALSE, <<>>)

\* a fallback record that claims the details were fetched
minimalResource_silent(item, type, service) ==
    Resource(item, type, service, <<>>, <<>>, service.requiresAuth, <<>>)

\* a fallback record that takes a failed detail request for a missing token
minimalResource_auth(item, type, service) ==
    Resource(item, type, service, <<>>, <<>>, TRUE,
             <<"Could not fetch details">>)

\* lines 508-520, 549-560: the record of a layer or table whose details could
\* not be fetched
minimalResource(item, type, service) ==
    Resource(item, type, service, <<>>, <<>>, service.requiresAuth,
             <<"Could not fetch details">>)

\* an optional array as a sequence
arrayOr(opt) == IF opt = <<>> THEN <<>> ELSE opt[1]

\* lines 484-563: the layers of a service, then its tables, in the order the
\* task of the service processes them
items(service) ==
    [n \in 1..Len(arrayOr(service.layers)) |->
        [item |-> arrayOr(service.layers)[n], type |-> "Layer"]]
    \o [n \in 1..Len(arrayOr(service.tables)) |->
        [item |-> arrayOr(service.tables)[n], type |-> "Table"]]

\* lines 465-467: the services that have layers or tables
servicesWithResources(services) ==
    SelectSeq(services, LAMBDA sv : lengthOr0(sv.layers) > 0 \/ lengthOr0(sv.tables) > 0)

\* a getResourceCatalog invocation (failed: the layer and table URLs whose
\* request failed, read by the claims only)
IdleRes ==
    [pc |-> "idle", useCache |-> FALSE, eligible |-> <<>>, i |-> 0,
     tasks |-> <<>>, resources |-> <<>>, stamp |-> 0, error |-> Null,
     fromCache |-> FALSE, pre |-> <<>>, post |-> <<>>, failed |-> {}]

\* getLayerDetails is called: up to its first await, the cache lookup with
\* useCache, the request otherwise
layerCall(useCache) == IF useCache THEN "cacheGet" ELSE "fetch"

\* lines 480-487: the task of one service of a batch, at its first await
newResTask(service, useCache) ==
    [pc |-> layerCall(useCache), service |-> service, pos |-> 1, out |-> <<>>,
     data |-> <<>>, stamp |-> 0]

\* the task pushes a record and goes on to its next layer or table, or returns
advance(t, rec, useCache) ==
    IF t.pos = Len(items(t.service))
    THEN [t EXCEPT !.pc = "done", !.out = Append(@, rec), !.data = <<>>]
    ELSE [t EXCEPT !.pc = layerCall(useCache), !.pos = @ + 1,
                   !.out = Append(@, rec), !.data = <<>>]

\* a loop that starts the tasks of every remaining service at once
startBatch_all(r, i) ==
    [r EXCEPT !.pc = "batch", !.i = i,
              !.tasks = [k \in 1..(Len(r.eligible) - i) |->
                           newResTask(r.eligible[i + k], r.useCache)]]

\* lines 477-480: the batch that starts at index i
startBatch(r, i) ==
    [r EXCEPT !.pc = "batch", !.i = i,
              !.tasks = [k \in 1..Min(batchSize, Len(r.eligible) - i) |->
                           newResTask(r.eligible[i + k], r.useCache)]]

\* a progress call that reports where the batch started
batchProgress_start(i, M) == Progress(i, M, "Processed")

\* lines 575-579: the progress call after a batch
batchProgress(i, M) == Progress(Min(i + batchSize, M), M, "Processed")

\* lines 582-588, 598: onProgress(1, 1); with useCache the entry is stamped
\* and CacheService.set is called, otherwise the resources are returned
resFinished(r) ==
    IF r.useCache
    THEN [r EXCEPT !.pc = "cacheSet", !.stamp = now, !.tasks = <<>>,
                   !.post = Append(@, Progress(1, 1, "Complete"))]
    ELSE [r EXCEPT !.pc = "resolved", !.tasks = <<>>,
                   !.post = Append(@, Progress(1, 1, "Complete"))]

\* lines 568-580: Promise.allSettled over the tasks of the batch: once every
\* task has settled their records are pushed in the order of the batch,
\* progress is reported, and the next batch starts or the loop ends
getResourceCatalog_collect(r) ==
    IF r.pc = "batch" /\ \A k \in DOMAIN r.tasks : r.tasks[k].pc = "done"
    THEN LET M  == Len(r.eligible)
             r2 == [r EXCEPT
                      !.resources = @ \o flatten([k \in DOMAIN r.tasks |->
                                                    r.tasks[k].out]),
                      !.post = Append(@, batchProgress(r.i, M))]
         IN IF r.i + batchSize < M
            THEN startBatch(r2, r.i + batchSize)
            ELSE resFinished([r2 EXCEPT !.i = r.i + batchSize])
    ELSE r

\* a catch block that reports whatever getCatalog threw as a cancellation
getResourceCatalog_catch_allCancelled(error) == "Discovery cancelled"

\* lines 589-596: the Error that getCatalog threw is not an axios
\* cancellation: it is rethrown as it is
getResourceCatalog_catch(error) == error

\* getResourceCatalog(baseUrl, useCache) is called (lines 441-449, 456-462):
\* with useCache up to the await of the cache lookup; otherwise a new
\* AbortController is made, onProgress(0, 1) is called and getCatalog is
\* called, which at once makes the AbortController that replaces it and
\* issues the first root request
getResourceCatalog_call(useCache) ==
    /\ res.pc = "idle"
    /\ walk[InnerWalk].pc = "idle"
    /\ IF useCache
       THEN /\ res' = [IdleRes EXCEPT !.pc = "cacheGet", !.useCache = TRUE]
            /\ UNCHANGED <<abortController, aborted, nextCtl, walk, lvl, hist>>
       ELSE /\ res' = [IdleRes EXCEPT
                         !.pc = "getCatalog",
                         !.pre = <<Progress(0, 1, "Fetching services...")>>]
            /\ StartWalk(InnerWalk, FALSE, hist[InnerWalk])
    /\ UNCHANGED <<store, now, catalog, cproc, probeVars, gateVars>>

\* lines 449-462: the lookup of catalog:<baseUrl>_resources returns: a hit is
\* returned as it is; after a miss a new AbortController is made,
\* onProgress(0, 1) is called and getCatalog(baseUrl, true) is called, up to
\* the await of its own cache lookup
getResourceCatalog_cacheGet ==
    /\ res.pc = "cacheGet"
    /\ LET key    == SERVICE_CATALOG(resourcesUrl(BaseUrl))
           cached == cacheGet(store, key, now)
       IN
         /\ store' = cacheGetStore(store, key, now)
         /\ IF cached # <<>>
            THEN /\ res' = [res EXCEPT !.pc = "resolved", !.resources = cached[1],
                                       !.fromCache = TRUE]
                 /\ UNCHANGED <<abortController, nextCtl, walk>>
            ELSE /\ res' = [res EXCEPT
                              !.pc = "getCatalog",
                              !.pre = <<Progress(0, 1, "Fetching services...")>>]
                 /\ abortController' = nextCtl
                 /\ nextCtl' = nextCtl + 1
                 /\ walk' = [walk EXCEPT ![InnerWalk] =
                               [IdleWalk EXCEPT !.pc = "cacheGet",
                                                !.useCache = TRUE]]
    /\ UNCHANGED <<now, catalog, aborted, lvl, hist, cproc, probeVars, gateVars>>

\* lines 462-480, 589-596: getCatalog has settled: its rejection is rethrown;
\* its list is filtered, an empty selection is returned at once, otherwise
\* onProgress(0, M) is called and the first batch starts
getResourceCatalog_catalog ==
    /\ res.pc = "getCatalog"
    /\ walk[InnerWalk].pc \in {"resolved", "rejected"}
    /\ IF walk[InnerWalk].pc = "rejected"
       THEN res' = [res EXCEPT
                      !.pc = "rejected",
                      !.error = getResourceCatalog_catch(walk[InnerWalk].error)]
       ELSE LET e == servicesWithResources(walk[InnerWalk].services) IN
              IF Len(e) = 0
              THEN res' = [res EXCEPT !.pc = "resolved"]
              ELSE res' = startBatch(
                            [res EXCEPT
                               !.eligible = e,
                               !.post = <<Progress(0, Len(e),
                                                   "Fetching resource details...")>>],
                            0)
    /\ UNCHANGED <<store, now, catalog, abortController, aborted, nextCtl, walk,
                   lvl, hist, cproc, probeVars, gateVars>>

\* lines 329-337: getLayerDetails' cache lookup returns: a hit yields the full
\* record, a miss issues the request for the layer or table URL
layer_cacheGet(k) ==
    /\ res.pc = "batch"
    /\ res.tasks[k].pc = "cacheGet"
    /\ LET t      == res.tasks[k]
           it     == items(t.service)[t.pos]
           key    == LAYER_DETAILS(t.service.url, it.item.id)
           cached == cacheGet(store, key, now)
       IN
         /\ store' = cacheGetStore(store, key, now)
         /\ res' = getResourceCatalog_collect(
               [res EXCEPT !.tasks[k] =
                  IF cached # <<>>
                  THEN advance(t, fullResource(it.item, it.type, t.service, cached[1]),
                               res.useCache)
                  ELSE [t EXCEPT !.pc = "fetch"]])
    /\ UNCHANGED <<now, catalog, abortController, aborted, nextCtl, walk, lvl,
                   hist, cproc, probeVars, gateVars>>

\* lines 338-348, 486-521: the request for the layer or table URL settles (it
\* carries no abort signal): a failure yields the minimal record; a body is
\* stamped for the cache with useCache, and yields the full record otherwise
layer_fetch(k, resp) ==
    /\ res.pc = "batch"
    /\ res.tasks[k].pc = "fetch"
    /\ LET t  == res.tasks[k]
           it == items(t.service)[t.pos]
       IN
         res' = getResourceCatalog_collect(
               [res EXCEPT
                  !.failed = IF resp.ok THEN @
                             ELSE @ \cup {resourceUrl(t.service.url, it.item.id)},
                  !.tasks[k] =
                  IF ~resp.ok
                  THEN advance(t, minimalResource(it.item, it.type, t.service),
                               res.useCache)
                  ELSE IF res.useCache
                  THEN [t EXCEPT !.pc = "cacheSet", !.data = <<resp.data>>,
                                 !.stamp = now]
                  ELSE advance(t, fullResource(it.item, it.type, t.service, resp.data),
                               res.useCache)])
    /\ UNCHANGED <<store, now, catalog, abortController, aborted, nextCtl, walk,
                   lvl, hist, cproc, probeVars, gateVars>>

\* lines 346-351: CacheService.set(layer:<url>:<id>, data, TTL.LONG) returns
\* and the full record is pushed
layer_cacheSet(k) ==
    /\ res.pc = "batch"
    /\ res.tasks[k].pc = "cacheSet"
    /\ LET t  == res.tasks[k]
           it == items(t.service)[t.pos]
       IN
         /\ store' = setItem(store, LAYER_DETAILS(t.service.url, it.item.id),
                             CacheEntry(t.data[1], t.stamp, TTL_LONG))
         /\ res' = getResourceCatalog_collect(
               [res EXCEPT !.tasks[k] =
                  advance(t, fullResource(it.item, it.type, t.service, t.data[1]),
                          res.useCache)])
    /\ UNCHANGED <<now, catalog, abortController, aborted, nextCtl, walk, lvl,
                   hist, cproc, probeVars, gateVars>>

\* lines 585-588, 598: CacheService.set(catalog:<baseUrl>_resources, resources,
\* TTL.MEDIUM) returns and getResourceCatalog returns the resources
getResourceCatalog_cacheSet ==
    /\ res.pc = "cacheSet"
    /\ store' = setItem(store, SERVICE_CATALOG(resourcesUrl(BaseUrl)),
                        CacheEntry(res.resources, res.stamp, TTL_MEDIUM))
    /\ res' = [res EXCEPT !.pc = "resolved"]
    /\ UNCHANGED <<now, catalog, abortController, aborted, nextCtl, walk, lvl,
                   hist, cproc, probeVars, gateVars>>

\* the calls of the onProgress callback of the getResourceCatalog invocation,
\* which it hands on to getCatalog, in their order
ResProgress == res.pre \o walk[InnerWalk].progress \o res.post

\* a service descriptor with one layer and no tables member
DescLayer == [layers |-> << <<[id |-> 0, name |-> "L0"]>> >>, tables |-> <<>>,
              capabilities |-> <<"Query">>, error |-> <<>>]

\* `svc${j}`
svcName(j) == "svc" \o ToString(j)

\* a server with M services at the root
BigCatalog(M) ==
    [services |-> [j \in 1..M |-> ServiceInfo(svcName(j), "MapServer")],
     folders  |-> <<>>,
     inFolder |-> <<>>,
     nested   |-> <<>>]

\* the numbers of services of the large servers
BigSizes == {batchSize, batchSize + 1, MaxServices}

BigCatalogs == {BigCatalog(M) : M \in BigSizes}

\* the list getCatalog returns for a large server
BigList(c) ==
    [j \in 1..Len(c.services) |->
        withDetails(newService(BaseUrl, c.services[j], ""), DescLayer)]

\* the services of a large server whose layer the earlier session did not
\* look at: two of the first batch and the first of the second
Unvisited == {1, 2, batchSize + 1}

\* what an earlier session left in the store for a large server: the catalog
\* list and the details of the layers it looked at
BigStore(c) ==
    [k \in {SERVICE_CATALOG(BaseUrl)}
           \cup {LAYER_DETAILS(BigList(c)[j].url, 0) :
                    j \in (1..Len(c.services)) \ Unvisited} |->
        IF k = SERVICE_CATALOG(BaseUrl)
        THEN CacheEntry(BigList(c), 0, TTL_MEDIUM)
        ELSE CacheEntry(LayerFull, 0, TTL_LONG)]

\* what an earlier session left for a small server: nothing, or the resources
PriorResources ==
    <<fullResource([id |-> 0, name |-> "L0"], "Layer", PriorList[1], LayerFull)>>

SmallStores ==
    {<<>>,
     [k \in {SERVICE_CATALOG(resourcesUrl(BaseUrl))} |->
         CacheEntry(PriorResources, 0, TTL_MEDIUM)]}

\* the useCache arguments of the calls: the large servers are only read
\* through the cache
UseCacheArgs == IF catalog \in BigCatalogs THEN {TRUE} ELSE BOOLEAN

\* what the prober meets in these calls: no answer, or the error body of a
\* missing token
ResProbeResponses ==
    PairProbeResponses
      \cup {[kind |-> "response", status |-> 200,
             body |-> [shape |-> "error", code |-> 499, message |-> TRUE]]}

InitRes ==
    /\ InitProbeIdle
    /\ abortController = 0
    /\ aborted = {}
    /\ nextCtl = 1
    /\ walk = [w \in WalkIds |-> IdleWalk]
    /\ lvl = [w \in WalkIds |-> [i \in 0..MaxFolders |-> NoLevel]]
    /\ hist = [w \in WalkIds |-> NoHist]
    /\ res = IdleRes
    /\ catalog \in PairCatalogs \cup BigCatalogs
    /\ store \in IF catalog \in BigCatalogs THEN {BigStore(catalog)} ELSE SmallStores
    /\ now = 0
    /\ cproc = [p \in CProcs |-> IdleCall]

\* one getResourceCatalog call and the getCatalog call inside it
NextRes ==
    \/ \E useCache \in UseCacheArgs : getResourceCatalog_call(useCache)
    \/ getResourceCatalog_cacheGet
    \/ getResourceCatalog_catalog
    \/ \E k \in DOMAIN res.tasks : layer_cacheGet(k)
    \/ \E k \in DOMAIN res.tasks, r \in LayerResponses : layer_fetch(k, r)
    \/ \E k \in DOMAIN res.tasks : layer_cacheSet(k)
    \/ getResourceCatalog_cacheSet
    \/ getCatalog_cacheGet(InnerWalk)
    \/ cancelDiscovery
    \/ \E i \in 0..MaxFolders, o \in {"ok", "fail", "cancel"} :
           fetchCatalogLevel_listing(InnerWalk, i, o)
    \/ \E i \in 1..MaxFolders, r \in ResProbeResponses :
           fetchCatalogLevel_probe(InnerWalk, i, r)
    \/ \E i \in 0..MaxFolders :
         \E j \in DOMAIN lvl[InnerWalk][i].tasks : service_cacheGet(InnerWalk, i, j)
    \/ \E i \in 0..MaxFolders :
         \E j \in DOMAIN lvl[InnerWalk][i].tasks, r \in PairDetailResponses :
             service_detail(InnerWalk, i, j, r)
    \/ \E i \in 0..MaxFolders :
         \E j \in DOMAIN lvl[InnerWalk][i].tasks : service_cacheSet(InnerWalk, i, j)
    \/ \E i \in 0..MaxFolders :
         \E j \in DOMAIN lvl[InnerWalk][i].tasks, r \in ResProbeResponses :
             service_probe(InnerWalk, i, j, r)
    \/ \E o \in {"ok", "fail", "cancel"} : getCatalog_root2(InnerWalk, o)
    \/ getCatalog_cacheSet(InnerWalk)

SpecRes == InitRes /\ [][NextRes]_vars

\* the same calls over the small servers, every request and every cache
\* operation completing at last
InitLive ==
    /\ InitRes
    /\ catalog \in PairCatalogs

NextLive == NextRes

\* the steps in which a request or a cache operation completes: all but the
\* calls of the user (getResourceCatalog, cancelDiscovery)
Completions ==
    \/ getResourceCatalog_cacheGet
    \/ getResourceCatalog_catalog
    \/ \E k \in DOMAIN res.tasks : layer_cacheGet(k)
    \/ \E k \in DOMAIN res.tasks, r \in LayerResponses : layer_fetch(k, r)
    \/ \E k \in DOMAIN res.tasks : layer_cacheSet(k)
    \/ getResourceCatalog_cacheSet
    \/ getCatalog_cacheGet(InnerWalk)
    \/ \E i \in 0..MaxFolders, o \in {"ok", "fail", "cancel"} :
           fetchCatalogLevel_listing(InnerWalk, i, o)
    \/ \E i \in 1..MaxFolders, r \in ResProbeResponses :
           fetchCatalogLevel_probe(InnerWalk, i, r)
    \/ \E i \in 0..MaxFolders :
         \E j \in DOMAIN lvl[InnerWalk][i].tasks : service_cacheGet(InnerWalk, i, j)
    \/ \E i \in 0..MaxFolders :
         \E j \in DOMAIN lvl[InnerWalk][i].tasks, r \in PairDetailResponses :
             service_detail(InnerWalk, i, j, r)
    \/ \E i \in 0..MaxFolders :
         \E j \in DOMAIN lvl[InnerWalk][i].tasks : service_cacheSet(InnerWalk, i, j)
    \/ \E i \in 0..MaxFolders :
         \E j \in DOMAIN lvl[InnerWalk][i].tasks, r \in ResProbeResponses :
             service_probe(InnerWalk, i, j, r)
    \/ \E o \in {"ok", "fail", "cancel"} : getCatalog_root2(InnerWalk, o)
    \/ getCatalog_cacheSet(InnerWalk)

SpecLive == InitLive /\ [][NextLive]_vars /\ WF_vars(Completions)

(***************************************************************************)
(* The gateway operations: fetchRaw, getServiceDetails, getLayerDetails,   *)
(* queryLayer; and clearCache                                              *)
(***************************************************************************)
\* a second base URL, whose cache entries clearCache(BaseUrl) must leave
OtherUrl == <<"other">>

\* the service and the layer the operations are called for
GateService == buildServiceUrl(BaseUrl, "s1", "MapServer")
GateLayer == 0

\* JSON.stringify(params) of queryLayer called with the default options
DefaultParams ==
    "{where:1=1,outFields:*,returnGeometry:true,f:json,resultRecordCount:1000}"

\* CacheService.KEYS.QUERY_RESULT(serviceUrl, layerId, query):
\* `query:${serviceUrl}:${layerId}:${query}`
QUERY_RESULT(serviceUrl, layerId, query) ==
    <<"query:">> \o serviceUrl \o <<":" \o ToString(layerId), ":" \o query>>

GateOps == {"fetchRaw", "getServiceDetails", "getLayerDetails", "queryLayer"}

\* the cache key an operation reads and writes with useCache
gateKey(op) ==
    CASE op = "getServiceDetails" -> SERVICE_DETAILS(GateService)
      [] op = "getLayerDetails"   -> LAYER_DETAILS(GateService, GateLayer)
      [] op = "queryLayer"        -> QUERY_RESULT(GateService, GateLayer, DefaultParams)

\* the TTL an operation writes its entry with
gateTTL(op) == IF op = "queryLayer" THEN TTL_SHORT ELSE TTL_LONG

\* response.data: a JSON document (<<body>>) or null (<<>>)
GateBody(doc, responseTime) == [doc |-> doc, responseTime |-> responseTime]

\* how the request of an operation settles: axios.get resolves with a body,
\* or rejects (network error, timeout, status outside 2xx)
GateResponses ==
    {[ok |-> TRUE, data |-> <<GateBody("new", <<>>)>>],
     [ok |-> TRUE, data |-> <<>>],
     [ok |-> FALSE, data |-> <<>>]}

\* an invocation of a gateway operation or of clearCache (requests: the HTTP
\* requests it has issued; failed, before: read by the claims only)
IdleGate ==
    [pc |-> "idle", op |-> "none", useCache |-> FALSE, arg |-> <<>>,
     requests |-> 0, start |-> 0, data |-> <<>>, stamp |-> 0,
     result |-> <<>>, failed |-> FALSE, before |-> <<>>]

\* lines 194, 216, 338, 386: axios.get is called and awaited
issueRequest(g) == [g EXCEPT !.pc = "request", !.requests = @ + 1, !.start = now]

\* an operation that issues its request again after a failure
onFailure_retry(g) ==
    IF g.requests < 2 THEN [issueRequest(g) EXCEPT !.failed = TRUE]
    ELSE [g EXCEPT !.pc = "rejected", !.failed = TRUE]

\* the awaited axios.get rejects: no operation catches it, the invocation
\* rejects
onFailure(g) == [g EXCEPT !.pc = "rejected", !.failed = TRUE]

\* fetchRaw(baseUrl, folder) or op(url, useCache) is called, up to its first
\* await: the cache lookup with useCache, the request otherwise
gate_call(op, useCache) ==
    /\ gate.pc = "idle"
    /\ op = "fetchRaw" => ~useCache
    /\ gate' = IF useCache
               THEN [IdleGate EXCEPT !.pc = "cacheGet", !.op = op,
                                     !.useCache = TRUE, !.before = store]
               ELSE issueRequest([IdleGate EXCEPT !.op = op, !.before = store])
    /\ UNCHANGED <<cacheVars, probeVars, walkVars, exp>>

\* lines 207-213, 329-335, 374-384: CacheService.get returns: a truthy value
\* is returned, otherwise the request is issued
gate_cacheGet ==
    /\ gate.pc = "cacheGet"
    /\ gate.op \in GateOps
    /\ LET cached == cacheGet(store, gateKey(gate.op), now) IN
         /\ store' = cacheGetStore(store, gateKey(gate.op), now)
         /\ gate' = IF cached # <<>> /\ cached[1] # <<>>
                    THEN [gate EXCEPT !.pc = "resolved", !.result = cached[1]]
                    ELSE issueRequest(gate)
    /\ UNCHANGED <<now, cproc, probeVars, walkVars, exp>>

\* the request settles (lines 194-199, 216-230, 338-351, 386-403): a
\* rejection rejects the invocation; getServiceDetails writes
\* data.responseTime, which throws on a null body; with useCache the entry is
\* stamped and CacheService.set is awaited, otherwise the data is returned
gate_response(resp) ==
    /\ gate.pc = "request"
    /\ LET data == IF gate.op = "getServiceDetails" /\ resp.data # <<>>
                   THEN <<[resp.data[1] EXCEPT !.responseTime = <<now - gate.start>>]>>
                   ELSE resp.data
       IN gate' =
            IF ~resp.ok THEN onFailure(gate)
            ELSE IF gate.op = "getServiceDetails" /\ resp.data = <<>>
            THEN [gate EXCEPT !.pc = "rejected"]
            ELSE IF gate.useCache
            THEN [gate EXCEPT !.pc = "cacheSet", !.data = data, !.stamp = now]
            ELSE [gate EXCEPT !.pc = "resolved", !.result = data]
    /\ UNCHANGED <<cacheVars, probeVars, walkVars, exp>>

\* lines 224-228, 345-349, 394-401: CacheService.set returns and the data is
\* returned
gate_cacheSet ==
    /\ gate.pc = "cacheSet"
    /\ gate.op \in GateOps
    /\ store' = setItem(store, gateKey(gate.op),
                        CacheEntry(gate.data, gate.stamp, gateTTL(gate.op)))
    /\ gate' = [gate EXCEPT !.pc = "resolved", !.result = gate.data]
    /\ UNCHANGED <<now, cproc, probeVars, walkVars, exp>>

\* the caller takes the outcome of the invocation
gate_return ==
    /\ gate.pc \in {"resolved", "rejected"}
    /\ gate' = IdleGate
    /\ UNCHANGED <<cacheVars, probeVars, walkVars, exp>>

\* a clearCache that forgets the resources entry
clearCache_keys_catalogOnly(url) == <<SERVICE_CATALOG(url), SERVICE_CATALOG(url)>>

\* lines 606-610: the keys clearCache(url) deletes, in their order
clearCache_keys(url) ==
    <<SERVICE_CATALOG(url), SERVICE_CATALOG(resourcesUrl(url))>>

\* clearCache(url?) is called (lines 604-613), up to its first await:
\* CacheService.delete of the catalog key, or CacheService.clear()
clearCache_call(arg) ==
    /\ gate.pc = "idle"
    /\ gate' = [IdleGate EXCEPT !.pc = IF arg # <<>> THEN "delete1" ELSE "clear",
                                !.op = "clearCache", !.arg = arg,
                                !.before = store]
    /\ UNCHANGED <<cacheVars, probeVars, walkVars, exp>>

\* line 607: the delete of catalog:<url> returns; the delete of
\* catalog:<url>_resources is awaited
clearCache_delete1 ==
    /\ gate.pc = "delete1"
    /\ store' = removeItem(store, clearCache_keys(gate.arg[1])[1])
    /\ gate' = [gate EXCEPT !.pc = "delete2"]
    /\ UNCHANGED <<now, cproc, probeVars, walkVars, exp>>

\* line 610: the delete of catalog:<url>_resources returns
clearCache_delete2 ==
    /\ gate.pc = "delete2"
    /\ store' = removeItem(store, clearCache_keys(gate.arg[1])[2])
    /\ gate' = [gate EXCEPT !.pc = "resolved"]
    /\ UNCHANGED <<now, cproc, probeVars, walkVars, exp>>

\* line 612, cacheService.ts 72-78: store.clear() completes
clearCache_clear ==
    /\ gate.pc = "clear"
    /\ store' = <<>>
    /\ gate' = [gate EXCEPT !.pc = "resolved"]
    /\ UNCHANGED <<now, cproc, probeVars, walkVars, exp>>

\* the keys an earlier session may have left: the catalog and resources
\* entries of two base URLs and a service, a layer and a query entry
GateKeys ==
    {SERVICE_CATALOG(BaseUrl), SERVICE_CATALOG(resourcesUrl(BaseUrl)),
     SERVICE_CATALOG(OtherUrl), SERVICE_CATALOG(resourcesUrl(OtherUrl)),
     SERVICE_DETAILS(GateService), LAYER_DETAILS(GateService, GateLayer),
     QUERY_RESULT(GateService, GateLayer, DefaultParams)}

\* the entry an earlier session wrote under a key
GateEntry(k) ==
    CacheEntry(<<GateBody("old", <<>>)>>, 0,
               IF k[1] = "catalog:" THEN TTL_MEDIUM
               ELSE IF k[1] = "query:" THEN TTL_SHORT ELSE TTL_LONG)

GateStores == {[k \in K |-> GateEntry(k)] : K \in SUBSET GateKeys}

\* the arguments of clearCache: none, or a base URL
ClearArgs == {<<>>, <<BaseUrl>>, <<OtherUrl>>}

InitGate ==
    /\ presp = Null
    /\ pverdict = <<>>
    /\ pstart = <<>>
    /\ psettled = "idle"
    /\ InitWalkIdle
    /\ store \in GateStores
    /\ now = 0
    /\ cproc = [p \in CProcs |-> IdleCall]
    /\ gate = IdleGate
    /\ exp = <<>>

NextGate ==
    \/ \E op \in GateOps, useCache \in BOOLEAN : gate_call(op, useCache)
    \/ gate_cacheGet
    \/ \E r \in GateResponses : gate_response(r)
    \/ gate_cacheSet
    \/ gate_return
    \/ \E a \in ClearArgs : clearCache_call(a)
    \/ clearCache_delete1
    \/ clearCache_delete2
    \/ clearCache_clear
    \/ Elapse

SpecGate == InitGate /\ [][NextGate]_vars

\* ---------------------------------------------------------------------
\* The GeoJSON export of a query result (components/ResourceTable.tsx).
\*
\* JavaScript values are tagged records.  An object is the sequence of its
\* own members in insertion order; a member that is missing reads as
\* undefined.  Numbers are the finite numbers a JSON document holds.
\* ---------------------------------------------------------------------
MaxFeatures == 2

jsUndefined == [t |-> "undefined"]
jsNull == [t |-> "null"]
jsNumber(n) == [t |-> "number", n |-> n]
jsString(s) == [t |-> "string", s |-> s]
jsArray(e) == [t |-> "array", e |-> e]
jsObject(m) == [t |-> "object", m |-> m]
member(k, v) == [k |-> k, v |-> v]

\* o[k]
get(o, k) ==
    IF o.t = "object" /\ \E i \in DOMAIN o.m : o.m[i].k = k
    THEN o.m[CHOOSE i \in DOMAIN o.m : o.m[i].k = k].v
    ELSE jsUndefined

\* ToBoolean(v)
truthy(v) ==
    CASE v.t \in {"undefined", "null"} -> FALSE
      [] v.t = "number" -> v.n # 0
      [] v.t = "string" -> v.s # ""
      [] OTHER -> TRUE

\* a || b
or(a, b) == IF truthy(a) THEN a ELSE b

\* JSON.stringify(v, null, 2): the JSON text as its syntax tree (the
\* indentation is white space between the tokens).  A member whose value is
\* undefined is left out; an undefined element of an array is written null.
RECURSIVE stringify(_)
RECURSIVE stringify_members(_)
stringify(v) ==
    CASE v.t = "object" -> [j |-> "{}", members |-> stringify_members(v.m)]
      [] v.t = "array" ->
           [j |-> "[]",
            elements |-> [i \in DOMAIN v.e |->
                            IF v.e[i].t = "undefined" THEN [j |-> "null"]
                            ELSE stringify(v.e[i])]]
      [] v.t = "number" -> [j |-> "number", digits |-> v.n]
      [] v.t = "string" -> [j |-> "string", chars |-> v.s]
      [] v.t = "null" -> [j |-> "null"]

stringify_members(m) ==
    IF m = <<>> THEN <<>>
    ELSE IF Head(m).v.t = "undefined" THEN stringify_members(Tail(m))
    ELSE <<[name |-> Head(m).k, value |-> stringify(Head(m).v)]>>
         \o stringify_members(Tail(m))

\* JSON.stringify that writes a member whose value is undefined as null
RECURSIVE stringify_undefinedAsNull(_)
stringify_undefinedAsNull(v) ==
    CASE v.t = "object" ->
           [j |-> "{}",
            members |-> [i \in DOMAIN v.m |->
                           [name |-> v.m[i].k,
                            value |-> stringify_undefinedAsNull(v.m[i].v)]]]
      [] v.t = "array" ->
           [j |-> "[]",
            elements |-> [i \in DOMAIN v.e |-> stringify_undefinedAsNull(v.e[i])]]
      [] v.t = "number" -> [j |-> "number", digits |-> v.n]
      [] v.t = "string" -> [j |-> "string", chars |-> v.s]
      [] v.t \in {"null", "undefined"} -> [j |-> "null"]

\* JSON.parse(text)
RECURSIVE parse(_)
parse(d) ==
    CASE d.j = "{}" ->
           jsObject([i \in DOMAIN d.members |->
                       member(d.members[i].name, parse(d.members[i].value))])
      [] d.j = "[]" -> jsArray([i \in DOMAIN d.elements |-> parse(d.elements[i])])
      [] d.j = "number" -> jsNumber(d.digits)
      [] d.j = "string" -> jsString(d.chars)
      [] d.j = "null" -> jsNull

\* the member k of an object read from a JSON document, when it has one
opt(k, v) == IF v.t = "undefined" THEN <<>> ELSE <<member(k, v)>>

\* query results as the server sends them
AttributeObjects ==
    { jsObject(<<>>),
      jsObject(<<member("OBJECTID", jsNumber(1))>>),
      jsObject(<<member("OBJECTID", jsNumber(2)), member("NAME", jsNull)>>),
      jsObject(<<member("OBJECTID", jsNumber(0)), member("NAME", jsString("a"))>>) }

Geometries ==
    { jsObject(<<member("x", jsNumber(1)), member("y", jsNumber(2))>>) }

Features ==
    { jsObject(opt("attributes", a) \o opt("geometry", g)) :
        a \in AttributeObjects \cup {jsUndefined},
        g \in Geometries \cup {jsNull, jsUndefined} }

SpatialReferences ==
    { jsObject(<<>>),
      jsObject(<<member("wkid", jsNumber(4326))>>),
      jsObject(<<member("wkid", jsNumber(102100)), member("latestWkid", jsNumber(3857))>>),
      jsObject(<<member("wkid", jsNumber(0)), member("latestWkid", jsNumber(3857))>>),
      jsObject(<<member("latestWkid", jsNumber(3857))>>) }

FeatureLists == UNION { [1..n -> Features] : n \in 0..MaxFeatures }

QueryResults ==
    { jsObject(opt("features", f) \o opt("spatialReference", sr)
               \o opt("count", c)) :
        f \in {jsArray(l) : l \in FeatureLists} \cup {jsUndefined},
        sr \in SpatialReferences \cup {jsUndefined},
        c \in {jsUndefined, jsNumber(3)} }

\* feature => ({type, properties, geometry})
toFeature(feature) ==
    jsObject(<<member("type", jsString("Feature")),
               member("properties", get(feature, "attributes")),
               member("geometry", or(get(feature, "geometry"), jsNull))>>)

\* an export that keeps only the features that have a geometry
handleExportGeoJSON_features_withGeometry(features) ==
    LET kept == SelectSeq(features.e, LAMBDA f : truthy(get(f, "geometry")))
    IN jsArray([i \in DOMAIN kept |-> toFeature(kept[i])])

\* queryResult.features.map(...)
handleExportGeoJSON_features(features) ==
    jsArray([i \in DOMAIN features.e |-> toFeature(features.e[i])])

\* the crs member
handleExportGeoJSON_crs(spatialReference) ==
    IF truthy(spatialReference)
    THEN LET wkid == or(get(spatialReference, "wkid"),
                        or(get(spatialReference, "latestWkid"), jsNumber(4326)))
         IN jsObject(<<member("type", jsString("name")),
                       member("properties",
                              jsObject(<<member("name",
                                   jsString("EPSG:" \o ToString(wkid.n)))>>))>>)
    ELSE jsUndefined

\* const geojson = {...}
geojsonOf(queryResult) ==
    jsObject(<<member("type", jsString("FeatureCollection")),
               member("features",
                      handleExportGeoJSON_features(get(queryResult, "features"))),
               member("crs",
                      handleExportGeoJSON_crs(get(queryResult, "spatialReference")))>>)

\* the component holding queryResult, before the export button is pressed
IdleExport(queryResult) ==
    [pc |-> "idle", queryResult |-> queryResult, geojson |-> <<>>,
     json |-> <<>>, parsed |-> <<>>]

\* handleExportGeoJSON(): nothing to export
handleExportGeoJSON_return ==
    /\ exp.pc = "idle"
    /\ ~truthy(exp.queryResult) \/ ~truthy(get(exp.queryResult, "features"))
    /\ exp' = [exp EXCEPT !.pc = "returned"]
    /\ UNCHANGED <<cacheVars, probeVars, walkVars, gate>>

\* handleExportGeoJSON(): the file is built and downloaded
handleExportGeoJSON ==
    /\ exp.pc = "idle"
    /\ truthy(exp.queryResult) /\ truthy(get(exp.queryResult, "features"))
    /\ LET geojson == geojsonOf(exp.queryResult)
       IN exp' = [exp EXCEPT !.pc = "downloaded", !.geojson = <<geojson>>,
                             !.json = <<stringify(geojson)>>]
    /\ UNCHANGED <<cacheVars, probeVars, walkVars, gate>>

\* the downloaded file is read back
reparse ==
    /\ exp.pc = "downloaded"
    /\ exp' = [exp EXCEPT !.pc = "parsed", !.parsed = <<parse(exp.json[1])>>]
    /\ UNCHANGED <<cacheVars, probeVars, walkVars, gate>>

InitExport ==
    /\ presp = Null
    /\ pverdict = <<>>
    /\ pstart = <<>>
    /\ psettled = "idle"
    /\ InitWalkIdle
    /\ store = <<>>
    /\ now = 0
    /\ cproc = [p \in CProcs |-> IdleCall]
    /\ gate = <<>>
    /\ exp \in {IdleExport(r) : r \in QueryResults \cup {jsNull}}

NextExport ==
    \/ handleExportGeoJSON_return
    \/ handleExportGeoJSON
    \/ reparse

SpecExport == InitExport /\ [][NextExport]_vars

(***************************************************************************)
(* Claims: CacheService                                                    *)
(***************************************************************************)
\* an entry is past its time to live at time t
Stale(entry, t) == t - entry.timestamp > entry.ttl

GetReturned(p) ==
    /\ cproc[p].op = "get"
    /\ cproc[p].pc = "returned"
    /\ cproc[p].found # <<>>

\* C8: a get that reads, at time t0+T-1, the entry set(key, v, T) stored at
\* time t0 returns v; a get that reads it at time t0+T+1 returns null.
C8_TtlBoundary ==
    \A p \in CProcs :
        GetReturned(p) =>
            LET e == cproc[p].found[1] IN
              /\ cproc[p].readAt = e.timestamp + e.ttl - 1 => cproc[p].result = e.data
              /\ cproc[p].readAt = e.timestamp + e.ttl + 1 => cproc[p].result = Null

\* one get has returned the value at t0+T-1 and another null at t0+T+1
C8_Witness ==
    \E p, q \in CProcs :
        /\ GetReturned(p) /\ GetReturned(q)
        /\ cproc[p].readAt = cproc[p].found[1].timestamp + cproc[p].found[1].ttl - 1
        /\ cproc[p].result = cproc[p].found[1].data
        /\ cproc[q].readAt = cproc[q].found[1].timestamp + cproc[q].found[1].ttl + 1
        /\ cproc[q].result = Null

\* C9: a get never returns straight from reading an expired entry: it returns
\* only after removing it, with null and the key gone from keys(); a get that
\* reads an unexpired entry returns its data, starts no removal and leaves the
\* store as it is.
C9_EvictOnRead ==
    [][\A p \in CProcs :
         LET k == cproc[p].key IN
           /\ (cproc[p].pc = "getItem" /\ cproc'[p].pc = "returned"
                 /\ k \in keys(store))
                => /\ ~Stale(store[k], now)
                   /\ cproc'[p].result = store[k].data
                   /\ store' = store
           /\ (cproc[p].pc = "getItem" /\ k \in keys(store) /\ ~Stale(store[k], now))
                => cproc'[p].pc # "removeItem"
           /\ (cproc[p].op = "get" /\ cproc[p].pc = "removeItem"
                 /\ cproc'[p].pc = "returned")
                => /\ cproc'[p].result = Null
                   /\ k \notin keys(store')
      ]_vars

\* a get found an expired entry, returned null, and the key is gone
C9_Witness ==
    \E p \in CProcs :
        /\ GetReturned(p)
        /\ Stale(cproc[p].found[1], cproc[p].readAt)
        /\ cproc[p].result = Null
        /\ cproc[p].key \notin keys(store)

(***************************************************************************)
(* Claims: checkServiceStatus                                              *)
(***************************************************************************)
AuthShape(resp) ==
    /\ resp.kind = "response"
    /\ \/ resp.status \in {401, 403}
       \/ resp.status = 200 /\ resp.body.shape = "error" /\ resp.body.code \in {498, 499}

\* C10: a response with HTTP status 401 or 403 (whatever its body), or an
\* HTTP 200 response whose body is {error:{code:499}} or {error:{code:498}},
\* is classified requiresAuth=true, accessible=false.
C10_AuthShapesIdentical ==
    (pverdict # <<>> /\ AuthShape(presp))
        => (pverdict[1].requiresAuth /\ ~pverdict[1].accessible)

\* the members every status record must carry
StatusMembers == {"accessible", "requiresAuth", "isEmpty", "redirected", "responseTime"}

\* C11: checkServiceStatus never rejects: whatever the server answers (any
\* status, any body, a network failure) the call, once settled, has resolved
\* with a status record whose accessible, requiresAuth, isEmpty and redirected
\* are booleans and whose responseTime is a time elapsed since the call.
C11_ProbeNeverThrows ==
    /\ psettled # "rejected"
    /\ psettled = "resolved" =>
         /\ pverdict # <<>>
         /\ StatusMembers \subseteq DOMAIN pverdict[1]
         /\ \A f \in StatusMembers \ {"responseTime"} : pverdict[1][f] \in BOOLEAN
         /\ pverdict[1].responseTime \in 0..(now - pstart[1])

\* the prober has classified a network failure, some time after the call
C11_Witness ==
    /\ psettled = "resolved"
    /\ presp = NetworkError
    /\ pverdict[1].responseTime > 0
    /\ ~pverdict[1].accessible

(***************************************************************************)
(* Claims: the catalog walk                                                *)
(***************************************************************************)
Settled(w) == walk[w].pc \in {"resolved", "rejected"}

\* getCatalog returned a list it walked for (not a cache hit)
Walked(w) == walk[w].pc = "resolved" /\ ~walk[w].fromCache

\* the records of a list that carry a given url
withUrl(list, url) == SelectSeq(list, LAMBDA r : r.url = url)

\* the records of a list that carry a given folder label
ofFolder(list, folder) == SelectSeq(list, LAMBDA r : r.folder = folder)

\* C1: a getCatalog walk during which cancelDiscovery() was invoked after the
\* root listing was fetched and before the folder tasks completed never
\* resolves with a list: once settled it has rejected with 'Discovery cancelled'.
C1_CancelDuringFanOutRejects ==
    \A w \in WalkIds :
        (hist[w].cancelledAt = "folders" /\ Settled(w))
            => (walk[w].pc = "rejected" /\ walk[w].error = "Discovery cancelled")

\* C2: at most one walk is in flight at any time (starting a walk cancels the
\* earlier one).
C2_AtMostOneWalkInFlight ==
    Cardinality({w \in WalkIds : InFlight(w)}) <= 1

\* C3: a getCatalog walk one of whose root-listing requests failed does not
\* resolve with a list.
C3_RootFailureIsFatal ==
    \A w \in WalkIds : hist[w].rootFailed => walk[w].pc # "resolved"

\* the record of a listing entry is one the code resolves a service to:
\* populated from its details, or annotated with the prober's verdict
ResolvedRecord(r, t) ==
    IF t.data # <<>>
    THEN /\ r.layerCount = <<lengthOr0(t.data[1].layers)>>
         /\ r.tableCount = <<lengthOr0(t.data[1].tables)>>
         /\ r.capabilities = t.data[1].capabilities
         /\ r.layers = t.data[1].layers /\ r.tables = t.data[1].tables
         /\ ~r.requiresAuth /\ ~r.isEmpty
    ELSE /\ t.status # <<>>
         /\ r.requiresAuth = t.status[1].requiresAuth
         /\ r.isEmpty = t.status[1].isEmpty
         /\ r.error = statusError(t.status[1])

\* C4: the list a walk returns holds exactly one record for every entry of
\* every listing the walk fetched: of the root listing (which every walk that
\* returns has fetched) and of each folder listing that arrived.
C4_EveryListedServiceEmitted ==
    \A w \in WalkIds :
        Walked(w) =>
          /\ \A j \in DOMAIN catalog.services :
               LET e == catalog.services[j]
                   rs == withUrl(walk[w].services,
                                 buildServiceUrl(BaseUrl, e.name, e.type))
               IN  /\ Len(rs) = 1
                   /\ lvl[w][0].tasks # <<>>
                   /\ ResolvedRecord(rs[1], lvl[w][0].tasks[j])
          /\ \A i \in 1..Len(walk[w].folders) :
               \A j \in DOMAIN lvl[w][i].tasks :
                 LET e == catalog.inFolder[catalog.folders[i]][j]
                     rs == withUrl(walk[w].services,
                                   buildServiceUrl(BaseUrl, e.name, e.type))
                 IN  Len(rs) = 1 /\ ResolvedRecord(rs[1], lvl[w][i].tasks[j])

\* what a folder level contributes by itself: the services of its listing,
\* the placeholder of an empty folder, or the placeholder of a failed one
FolderFailed(w, i) == lvl[w][i].status # <<>>

\* C5: a walk is never rejected once its folder fan-out has begun, and in the
\* list it returns a folder whose listing failed is represented by exactly one
\* type='Folder' record carrying the prober's verdict, while the root's
\* records and every other folder's records are those of their own listings.
C5_FolderFailureContained ==
    \A w \in WalkIds :
        /\ walk[w].pc = "rejected" => \A i \in 1..MaxFolders : lvl[w][i].pc = "unused"
        /\ Walked(w) =>
             /\ ofFolder(walk[w].services, "root")
                   = [j \in DOMAIN lvl[w][0].tasks |-> lvl[w][0].tasks[j].svc]
             /\ \A i \in 1..Len(walk[w].folders) :
                  LET f  == walk[w].folders[i]
                      rs == ofFolder(walk[w].services, f)
                  IN IF FolderFailed(w, i)
                     THEN /\ Len(rs) = 1
                          /\ rs[1].type = "Folder" /\ rs[1].name = f
                          /\ rs[1].requiresAuth = lvl[w][i].status[1].requiresAuth
                          /\ rs[1].isEmpty = lvl[w][i].status[1].isEmpty
                          /\ rs[1].error = statusError(lvl[w][i].status[1])
                     ELSE IF lvl[w][i].tasks # <<>>
                     THEN rs = [j \in DOMAIN lvl[w][i].tasks |-> lvl[w][i].tasks[j].svc]
                     ELSE Len(rs) = 1 /\ rs[1].isEmpty /\ ~rs[1].requiresAuth

\* a walk returned with one folder failed and another folder's listing fetched
C5_Witness ==
    \E w \in WalkIds :
        /\ Walked(w)
        /\ \E i, k \in 1..Len(walk[w].folders) :
             /\ FolderFailed(w, i)
             /\ ~FolderFailed(w, k) /\ lvl[w][k].tasks # <<>>
             /\ ofFolder(walk[w].services, walk[w].folders[k]) # <<>>

\* the listing of folder i of walk w arrived and held no service
EmptyListing(w, i) ==
    /\ lvl[w][i].pc = "done"
    /\ ~FolderFailed(w, i)
    /\ lvl[w][i].tasks = <<>>

\* C6: in the list a walk returns, a folder whose listing arrived with zero
\* services is represented by exactly one record: type='Folder', name = the
\* folder, isEmpty=true, requiresAuth=false, no layerCount/tableCount; no
\* other record carries that folder.
C6_EmptyFolderPlaceholder ==
    \A w \in WalkIds :
        Walked(w) =>
          \A i \in 1..Len(walk[w].folders) :
            EmptyListing(w, i) =>
              LET f  == walk[w].folders[i]
                  rs == SelectSeq(walk[w].services,
                                  LAMBDA r : r.folder = f \/ r.name = f
                                             \/ r.url = folderUrl(BaseUrl, f))
              IN /\ Len(rs) = 1
                 /\ rs[1].type = "Folder" /\ rs[1].name = f
                 /\ rs[1].isEmpty /\ ~rs[1].requiresAuth
                 /\ rs[1].layerCount = <<>> /\ rs[1].tableCount = <<>>

\* a walk returned a list that holds the placeholder of an empty folder
C6_Witness ==
    \E w \in WalkIds :
        /\ Walked(w)
        /\ \E i \in 1..Len(walk[w].folders) :
             /\ EmptyListing(w, i)
             /\ \E n \in DOMAIN walk[w].services :
                  /\ walk[w].services[n].name = walk[w].folders[i]
                  /\ walk[w].services[n].isEmpty

\* the second call follows the first, which returned, and reads the cache
\* before the entry the first call wrote has expired
Successive(v, w) ==
    /\ v \in hist[w].after
    /\ walk[v].useCache /\ walk[w].useCache
    /\ Settled(w)
    /\ hist[w].readAt - walk[v].stamp <= TTL_MEDIUM

\* C7: two successive getCatalog(url, useCache=true) calls issue at most one
\* request for the root listing between them; the second call issues none and
\* returns the list the first returned.
C7_CacheIdempotence ==
    \A v, w \in WalkIds :
        Successive(v, w) =>
          /\ hist[v].rootRequests + hist[w].rootRequests <= 1
          /\ hist[w].rootRequests = 0
          /\ walk[w].pc = "resolved"
          /\ walk[w].services = walk[v].services

\* the answer of an endpoint signals a missing or invalid token: HTTP 401/403,
\* a redirect, or an HTTP-success body with error code 498/499
TokenShape(resp) ==
    /\ resp.kind = "response"
    /\ \/ resp.status \in {401, 403, 301, 302}
       \/ resp.status = 200 /\ resp.body.shape = "error"
             /\ resp.body.code \in {498, 499}

\* the service URL of a task answered in one of those shapes: to the detail
\* request (or to the one whose body the cache still holds), or to the probe
TokenSignalled(t) ==
    \/ t.data # <<>> /\ t.data[1].error \in {<<498>>, <<499>>}
    \/ t.probed # <<>> /\ TokenShape(t.probed[1])

\* C12: in the list a walk returns, the record of a service whose URL answered
\* with a missing-token shape (HTTP 401/403, a redirect, or a success body
\* with error code 498/499) has requiresAuth=true, and so has the record of a
\* folder whose URL answered in one of those shapes.
C12_TokenShapesRequireAuth ==
    \A w \in WalkIds :
        Walked(w) =>
          /\ \A i \in 0..Len(walk[w].folders) :
               \A j \in DOMAIN lvl[w][i].tasks :
                 TokenSignalled(lvl[w][i].tasks[j]) =>
                   LET rs == withUrl(walk[w].services, lvl[w][i].tasks[j].svc.url)
                   IN  \A n \in DOMAIN rs : rs[n].requiresAuth
          /\ \A i \in 1..Len(walk[w].folders) :
               (lvl[w][i].probed # <<>> /\ TokenShape(lvl[w][i].probed[1])) =>
                   LET rs == withUrl(walk[w].services,
                                     folderUrl(BaseUrl, walk[w].folders[i]))
                   IN  \A n \in DOMAIN rs : rs[n].requiresAuth

\* C13: in the list a walk returns, the record of a service whose detail
\* request failed, and the record of a folder whose listing request failed,
\* carry a non-empty error string.
C13_FailedNodeCarriesError ==
    \A w \in WalkIds :
        Walked(w) =>
          /\ \A i \in 0..Len(walk[w].folders) :
               \A j \in DOMAIN lvl[w][i].tasks :
                 lvl[w][i].tasks[j].probed # <<>> =>
                   LET rs == withUrl(walk[w].services, lvl[w][i].tasks[j].svc.url)
                   IN  \A n \in DOMAIN rs : rs[n].error # <<>> /\ rs[n].error # <<"">>
          /\ \A i \in 1..Len(walk[w].folders) :
               FolderFailed(w, i) =>
                   LET rs == withUrl(walk[w].services,
                                     folderUrl(BaseUrl, walk[w].folders[i]))
                   IN  \A n \in DOMAIN rs : rs[n].error # <<>> /\ rs[n].error # <<"">>

\* C17: in the list a walk returns, every record of the root listing
\* (folder = 'root') precedes every record that came from a folder, whatever
\* the order in which the requests of the walk settled.
C17_RootPrecedesFolders ==
    \A w \in WalkIds :
        Walked(w) =>
          \A m, n \in DOMAIN walk[w].services :
            (walk[w].services[m].folder = "root"
               /\ walk[w].services[n].folder # "root") => m < n

\* a walk returned a list with records of the root and services of a folder
C17_Witness ==
    \E w \in WalkIds :
        /\ Walked(w)
        /\ ofFolder(walk[w].services, "root") # <<>>
        /\ \E n \in DOMAIN walk[w].services :
             /\ walk[w].services[n].folder # "root"
             /\ walk[w].services[n].type # "Folder"

\* C19: on a cache miss, a walk over a root listing with zero folders and
\* exactly one service returns a list of exactly one record, with folder =
\* 'root'.
C19_SingleRootService ==
    \A w \in WalkIds :
        (Walked(w) /\ catalog.folders = <<>> /\ Len(catalog.services) = 1)
            => /\ Len(walk[w].services) = 1
               /\ walk[w].services[1].folder = "root"

\* the requests a walk has outstanding are all aborted
OutstandingAborted(w) ==
    /\ walk[w].pc = "root2" => walk[w].sig \in aborted
    /\ \A i \in 0..MaxFolders :
         /\ lvl[w][i].pc = "listing" => lvl[w][i].sig \in aborted
         /\ lvl[w][i].pc # "probe"
         /\ \A j \in DOMAIN lvl[w][i].tasks :
              lvl[w][i].tasks[j].pc \notin {"detail", "probe"}

\* C20: once cancelDiscovery() has been invoked during a walk, the walk has
\* no request outstanding that is not aborted: what was in flight was aborted
\* and nothing new is started (listing, service-detail and probe requests).
C20_CancelAbortsEverything ==
    \A w \in WalkIds :
        (hist[w].cancelledAt # "never" /\ InFlight(w)) => OutstandingAborted(w)

(***************************************************************************)
(* Claims: getResourceCatalog                                              *)
(***************************************************************************)
\* the current values of a sequence of progress calls never decrease
NonDecreasing(log) ==
    \A m, n \in DOMAIN log : m < n => log[m][1] <= log[n][1]

\* C14: the current values passed to onProgress in the course of one
\* getResourceCatalog call, the calls of the getCatalog inside it included
\* (and so those of a getCatalog call by itself), never decrease.
C14_ProgressMonotone == NonDecreasing(ResProgress)

\* getResourceCatalog went through its batches (it was not served from cache)
Batched == res.pc \in {"batch", "cacheSet", "resolved"} /\ res.eligible # <<>>

\* the progress calls that report the completion of a batch
BatchCalls == SelectSeq(ResProgress, LAMBDA c : c[3] = "Processed")

\* how many service tasks have settled so far
TasksSettled ==
    Min(res.i, Len(res.eligible))
      + Cardinality({k \in DOMAIN res.tasks : res.tasks[k].pc = "done"})

\* ceil(M / batchSize)
Batches(M) == (M + batchSize - 1) \div batchSize

\* C15: with M eligible services the k-th batch-completion call reports
\* current = min(10k, M) and total = M; it has been issued exactly when every
\* task of the batches 1..k has settled (never after a single resource), so
\* that ceil(M/10) such calls have been issued when the batches are through.
C15_BatchProgress ==
    Batched =>
      LET M == Len(res.eligible) IN
        /\ \A k \in DOMAIN BatchCalls :
             BatchCalls[k] = <<Min(10 * k, M), M, "Processed">>
        /\ Len(BatchCalls)
             = Cardinality({k \in 1..Batches(M) : Min(10 * k, M) <= TasksSettled})
        /\ res.pc \in {"cacheSet", "resolved"} => Len(BatchCalls) = Batches(M)

\* the largest server went through its three batches
C15_Witness ==
    /\ res.pc = "resolved"
    /\ Len(res.eligible) = MaxServices
    /\ Len(BatchCalls) = 3
    /\ BatchCalls[2][1] = 20

\* the records of a resource list that carry a given resourceUrl
atUrl(list, url) == SelectSeq(list, LAMBDA r : r.resourceUrl = url)

RECURSIVE countItems(_)
countItems(services) ==
    IF services = <<>> THEN 0
    ELSE Len(items(Head(services))) + countItems(Tail(services))

\* C16: the resources getResourceCatalog returns hold exactly one record for
\* every layer and every table of every eligible service, and nothing else;
\* each carries the id, name and type of the item, the name, type and url of
\* its service and resourceUrl = serviceUrl/id; the record of an item whose
\* detail request failed has requiresAuth of its service, error = 'Could not
\* fetch details' and no fields, every other record has fields and no error.
C16_OneRecordPerResource ==
    (res.pc = "resolved" /\ ~res.fromCache) =>
      /\ Len(res.resources) = countItems(res.eligible)
      /\ \A n \in DOMAIN res.eligible :
           LET sv == res.eligible[n] IN
             \A m \in DOMAIN items(sv) :
               LET it == items(sv)[m]
                   u  == sv.url \o <<ToString(it.item.id)>>
                   rs == atUrl(res.resources, u)
               IN /\ Len(rs) = 1
                  /\ rs[1].id = it.item.id /\ rs[1].name = it.item.name
                  /\ rs[1].type = it.type
                  /\ rs[1].serviceName = sv.name /\ rs[1].serviceType = sv.type
                  /\ rs[1].serviceUrl = sv.url
                  /\ IF u \in res.failed
                     THEN /\ rs[1].requiresAuth = sv.requiresAuth
                          /\ rs[1].error = <<"Could not fetch details">>
                          /\ rs[1].fields = <<>> /\ rs[1].fieldCount = <<>>
                     ELSE /\ rs[1].error = <<>>
                          /\ rs[1].fields # <<>>

\* two eligible services were processed; a layer's request failed and the
\* table of the same service and the items of the other service got their
\* details
C16_Witness ==
    /\ res.pc = "resolved" /\ ~res.fromCache
    /\ Len(res.eligible) = 2
    /\ \E n \in DOMAIN res.resources :
         /\ res.resources[n].type = "Layer"
         /\ res.resources[n].error = <<"Could not fetch details">>
         /\ \E m \in DOMAIN res.resources :
              /\ res.resources[m].type = "Table"
              /\ res.resources[m].serviceUrl = res.resources[n].serviceUrl
              /\ res.resources[m].error = <<>>
    /\ \E n \in DOMAIN res.resources :
         /\ res.resources[n].serviceUrl = res.eligible[2].url
         /\ res.resources[n].error = <<>>

\* C18: a getCatalog or getResourceCatalog call that rejects does so with
\* 'Discovery cancelled' if and only if the request whose failure rejected it
\* was aborted; after any other failure the error is a different one.
C18_CancelledDistinguished ==
    /\ \A w \in WalkIds :
         walk[w].pc = "rejected" =>
           /\ hist[w].cause \in {"cancel", "fail"}
           /\ walk[w].error = "Discovery cancelled" <=> hist[w].cause = "cancel"
    /\ res.pc = "rejected" =>
         /\ walk[InnerWalk].pc = "rejected"
         /\ res.error = "Discovery cancelled" <=> hist[InnerWalk].cause = "cancel"

\* getResourceCatalog rejected as cancelled, after a request of the getCatalog
\* inside it was aborted
C18_Witness ==
    /\ res.pc = "rejected"
    /\ res.error = "Discovery cancelled"
    /\ hist[InnerWalk].cause = "cancel"
    /\ hist[InnerWalk].cancelledAt # "never"

(***************************************************************************)
(* Claims: the catalog cache entry                                         *)
(***************************************************************************)
\* walk w has written catalog:<baseUrl>: its CacheService.set has returned
WroteCatalog(w) ==
    walk[w].pc = "resolved" /\ walk[w].useCache /\ ~walk[w].fromCache

\* cancelDiscovery() was invoked while walk w was fetching, before its merge
CancelledBeforeMerge(w) ==
    hist[w].cancelledAt \in {"rootLevel", "root2", "folders"}

\* C21: a walk during which cancelDiscovery() was invoked (before it had
\* merged its results) never calls CacheService.set for catalog:<baseUrl>,
\* so it leaves no entry written by it in the cache.
C21_CancelledWalkWritesNothing ==
    \A w \in WalkIds :
        CancelledBeforeMerge(w) => (walk[w].pc # "cacheSet" /\ ~WroteCatalog(w))

\* walk w is fetching: it has not yet merged its results
Fetching(w) == walk[w].pc \in {"rootLevel", "root2", "folders"}

\* walk w has begun its walk proper (it was not served from the cache)
Started(w) == hist[w].rootRequests >= 1

\* walk b began its walk proper after walk a did: its AbortController is the
\* younger one
StartedAfter(b, a) ==
    Started(a) /\ Started(b) /\ lvl[a][0].sig < lvl[b][0].sig

\* C22: a walk A that is still fetching when a walk B has started after it
\* never goes on to call CacheService.set for catalog:<baseUrl>: its stale
\* list is not written over, or in place of, B's entry.
C22_StaleWalkWritesNothing ==
    [][\A a, b \in WalkIds :
         (StartedAfter(b, a) /\ Fetching(a)) => walk'[a].pc # "cacheSet"
      ]_vars

\* the records walk w has pushed onto its own list at the reduction points it
\* has passed: those of its root level once that level has returned, and
\* those of its folder levels once they have all returned
OwnReduction(w) ==
    IF walk[w].pc \in {"idle", "cacheGet", "rootLevel"} THEN <<>>
    ELSE IF walk[w].pc \in {"root2", "folders", "rejected"} THEN lvl[w][0].out
    ELSE lvl[w][0].out
           \o flatten([i \in 1..Len(walk[w].folders) |-> lvl[w][i].out])

\* C23: the list of a walk holds, at every moment, exactly the records that
\* its own levels returned at the reduction points it has passed: no record
\* assembled by a task of another walk is in it, and no task adds to it
\* while a fan-out is still running.
C23_OwnListOnly ==
    \A w \in WalkIds :
        ~walk[w].fromCache => walk[w].services = OwnReduction(w)

\* walk 2 has returned its list while walk 1, called before it, is still in
\* flight with records of its own that differ from those of walk 2
C23_Witness ==
    \E a, b \in WalkIds :
        /\ a # b
        /\ Walked(b) /\ walk[b].services # <<>>
        /\ InFlight(a) /\ StartedAfter(b, a)
        /\ lvl[a][0].out # <<>>
        /\ lvl[a][0].out # lvl[b][0].out

(***************************************************************************)
(* Claims: races on the cache                                              *)
(***************************************************************************)
\* the step in which the removal that a get awaits takes effect
Evicts(p) ==
    /\ cproc[p].op = "get"
    /\ cproc[p].pc = "removeItem"
    /\ cproc'[p].pc = "returned"

\* C24: the eviction a get performs after reading an expired entry removes
\* only the entry it read: a value that a set has stored under the key in the
\* meantime is left in place (the last write wins); and a step changes the
\* entry of a key only if it completes a set or a removal for that very key.
C24_LastWriteWins ==
    [][/\ \A p \in CProcs :
            (Evicts(p) /\ cproc[p].key \in keys(store))
                => store[cproc[p].key] = cproc[p].found[1]
       /\ \A k \in CacheKeys :
            (getItem(store, k) # getItem(store', k))
                => \E p \in CProcs :
                     /\ cproc[p].key = k
                     /\ cproc[p].pc \in {"removeItem", "setItem"}
                     /\ cproc'[p].pc = "returned"
      ]_vars

(***************************************************************************)
(* Claims: the prober on redirects                                         *)
(***************************************************************************)
\* C25: for a response with HTTP status 301 or 302 checkServiceStatus returns
\* requiresAuth=true, redirected=true and accessible=false.
C25_RedirectRequiresAuth ==
    (psettled = "resolved" /\ presp.kind = "response" /\ presp.status \in {301, 302})
        => /\ pverdict[1].requiresAuth
           /\ pverdict[1].redirected
           /\ ~pverdict[1].accessible

(***************************************************************************)
(* Claims: the resolved state of a Service record                          *)
(***************************************************************************)
HasCounts(r) == r.layerCount # <<>> \/ r.tableCount # <<>>

HasLayerData(r) ==
    r.layers # <<>> \/ r.tables # <<>> \/ r.layerCount # <<>> \/ r.tableCount # <<>>

\* how many of the three resolved states a record is in
ResolvedStates(r) ==
    (IF HasCounts(r) THEN 1 ELSE 0) + (IF r.isEmpty THEN 1 ELSE 0)
      + (IF r.error # <<>> THEN 1 ELSE 0)

\* C26: every record of the list a walk returns is in exactly one of the
\* three resolved states: it has layer/table counts, or isEmpty=true, or its
\* error is set.
C26_ExactlyOneResolvedState ==
    \A w \in WalkIds :
        Walked(w) =>
          \A n \in DOMAIN walk[w].services : ResolvedStates(walk[w].services[n]) = 1

\* C27: no record of a list getCatalog returns has isEmpty=true together with
\* layer data (layers, tables, layerCount or tableCount).
C27_EmptyHasNoLayerData ==
    \A w \in WalkIds :
        walk[w].pc = "resolved" =>
          \A n \in DOMAIN walk[w].services :
            walk[w].services[n].isEmpty => ~HasLayerData(walk[w].services[n])

\* a walk returned a service (not a folder placeholder) that the prober found
\* empty, next to a service with layer data
C27_Witness ==
    \E w \in WalkIds :
        /\ Walked(w)
        /\ \E n, m \in DOMAIN walk[w].services :
             /\ walk[w].services[n].isEmpty
             /\ walk[w].services[n].type # "Folder"
             /\ HasLayerData(walk[w].services[m])

(***************************************************************************)
(* Claims: the batches of getResourceCatalog                               *)
(***************************************************************************)
\* the service tasks whose getLayerDetails call is outstanding
DetailsInFlight == {k \in DOMAIN res.tasks : res.tasks[k].pc # "done"}

\* the service tasks whose request for a layer or table URL is outstanding
RequestsInFlight == {k \in DOMAIN res.tasks : res.tasks[k].pc = "fetch"}

\* C28: the eligible services are processed in batches of at most 10: the
\* running tasks are those of the services i+1..i+n of one batch, n <= 10, at
\* most 10 detail fetches are in flight, and while they run every task of the
\* batches before has settled (its records are in the result) and no service
\* of a later batch has a task.
C28_BatchesOfTen ==
    res.pc = "batch" =>
      /\ res.i % batchSize = 0
      /\ Len(res.tasks) = Min(batchSize, Len(res.eligible) - res.i)
      /\ Cardinality(DetailsInFlight) <= 10
      /\ \A k \in DOMAIN res.tasks : res.tasks[k].service = res.eligible[res.i + k]
      /\ Len(res.resources) = countItems(SubSeq(res.eligible, 1, res.i))
      /\ \A n \in DOMAIN res.resources :
           \E m \in 1..res.i : res.resources[n].serviceUrl = res.eligible[m].url

\* ten tasks are outstanding, two of them with a request on the network,
\* while an eleventh service waits for its batch
C28_Witness ==
    /\ res.pc = "batch"
    /\ Len(res.eligible) > batchSize
    /\ res.i = 0
    /\ Cardinality(DetailsInFlight) = batchSize
    /\ Cardinality(RequestsInFlight) = 2

\* the second batch runs a request after the ten tasks of the first settled
C28_WitnessNext ==
    /\ res.pc = "batch"
    /\ res.i = batchSize
    /\ Len(res.resources) = batchSize
    /\ RequestsInFlight # {}

(***************************************************************************)
(* Claims: the write of catalog:<baseUrl>                                  *)
(***************************************************************************)
\* the step in which the CacheService.set of walk w returns
CatalogWrite(w) == walk[w].pc = "cacheSet" /\ walk'[w].pc = "resolved"

\* every level of walk w has returned
Merged(w) ==
    \A i \in 0..Len(walk[w].folders) : lvl[w][i].pc = "done"

\* the cache lookup that precedes a walk finds an expired entry, which
\* CacheService.get removes
LookupEvicts(w) ==
    /\ walk[w].pc = "cacheGet"
    /\ walk'[w].pc # "cacheGet"
    /\ SERVICE_CATALOG(BaseUrl) \in keys(store)
    /\ isExpired(store[SERVICE_CATALOG(BaseUrl)], now)
    /\ SERVICE_CATALOG(BaseUrl) \notin keys(store')

\* C29: a getCatalog walk with useCache writes catalog:<baseUrl> at most once,
\* when the lists of the root and of every folder are merged, with exactly
\* the list it returns and a TTL of 30 minutes; nothing else a walk does
\* changes the entry (an expired entry is removed by the lookup before the
\* walk), so a walk that rejects, or runs without useCache, writes none and
\* leaves an existing one as it is.
C29_CatalogWrittenOnceAfterMerge ==
    [][/\ \A w \in WalkIds :
            CatalogWrite(w) =>
              /\ walk[w].useCache
              /\ Merged(w)
              /\ walk[w].services = OwnReduction(w)
              /\ walk'[w].services = walk[w].services
              /\ getItem(store', SERVICE_CATALOG(BaseUrl))
                   = <<CacheEntry(walk'[w].services, walk[w].stamp, 30 * 60 * 1000)>>
       /\ getItem(store', SERVICE_CATALOG(BaseUrl))
            # getItem(store, SERVICE_CATALOG(BaseUrl))
            => \E w \in WalkIds : CatalogWrite(w) \/ LookupEvicts(w)
       /\ \A w \in WalkIds : Settled(w) => walk'[w] = walk[w]
      ]_vars

\* a walk over a root with a folder has written the merged list it returned
C29_Witness ==
    \E w \in WalkIds :
        /\ WroteCatalog(w)
        /\ walk[w].folders # <<>>
        /\ Len(walk[w].services) >= 2
        /\ getItem(store, SERVICE_CATALOG(BaseUrl))
             = <<CacheEntry(walk[w].services, walk[w].stamp, TTL_MEDIUM)>>

\* a walk rejected while the entry of an earlier session is in the store
C29_WitnessRejected ==
    \E w \in WalkIds :
        /\ walk[w].pc = "rejected"
        /\ SERVICE_CATALOG(BaseUrl) \in keys(store)

(***************************************************************************)
(* Claims: the listing requests of a walk                                  *)
(***************************************************************************)
\* the folder levels of walk w that have issued their listing request (each
\* fetchCatalogLevel invocation issues one, at line 113)
Listed(w) == {i \in 1..MaxFolders : lvl[w][i].pc # "unused"}

\* the root level of walk w has returned: every service task of the root
\* listing has settled
RootResolved(w) ==
    /\ lvl[w][0].pc = "done"
    /\ \A j \in DOMAIN lvl[w][0].tasks : lvl[w][0].tasks[j].pc = "done"

\* the folder names that the listings of the folders themselves carry
NestedNames ==
    UNION {{catalog.nested[f][n] : n \in DOMAIN catalog.nested[f]} :
             f \in DOMAIN catalog.nested}

\* C30: after a cache miss a walk issues one listing request for each folder
\* name of the root response, in one go once the second root request has
\* answered, none of them before every service task of the root level has
\* settled, and none for a folder name that a folder's own listing carries.
C30_OneListingPerRootFolder ==
    \A w \in WalkIds :
        /\ Listed(w) # {} => RootResolved(w)
        /\ Listed(w) \in {{}, 1..Len(catalog.folders)}
        /\ (~walk[w].fromCache /\ walk[w].pc \in {"folders", "cacheSet", "resolved"})
             => /\ walk[w].folders = catalog.folders
                /\ Listed(w) = 1..Len(catalog.folders)
        /\ \A i \in Listed(w) : walk[w].folders[i] \notin NestedNames

\* a walk returned after the listings of both root folders, one of which
\* carries a folder name of its own
C30_Witness ==
    \E w \in WalkIds :
        /\ Walked(w)
        /\ Cardinality(Listed(w)) = 2
        /\ NestedNames # {}
        /\ \A i \in Listed(w) : lvl[w][i].pc = "done"

(***************************************************************************)
(* Claims: the gateway operations                                          *)
(***************************************************************************)
\* C31: an invocation of a gateway operation (fetchRaw, getServiceDetails,
\* getLayerDetails, queryLayer) issues at most one HTTP request; after its
\* request failed no request is outstanding and none was issued again: the
\* invocation has rejected after exactly one request, queryLayer included.
C31_NoRetry ==
    gate.op \in GateOps =>
      /\ gate.requests <= 1
      /\ gate.failed => (gate.pc = "rejected" /\ gate.requests = 1)
      /\ gate.pc \in {"idle", "cacheGet"} => gate.requests = 0

\* a queryLayer invocation rejected after its one request failed
C31_Witness ==
    /\ gate.op = "queryLayer"
    /\ gate.pc = "rejected"
    /\ gate.failed
    /\ gate.requests = 1

(***************************************************************************)
(* Claims: clearCache                                                      *)
(***************************************************************************)
\* the store s without the keys K
Without(s, K) == [k \in DOMAIN s \ K |-> s[k]]

\* C38: clearCache(url) removes exactly the keys catalog:<url> and
\* catalog:<url>_resources: when it returns the store is the store of the
\* call without these two, and while it runs no other entry changes;
\* clearCache() without an argument removes every entry.
C38_ClearCacheFrame ==
    gate.op = "clearCache" =>
      IF gate.arg = <<>>
      THEN gate.pc = "resolved" => store = <<>>
      ELSE LET K == {SERVICE_CATALOG(gate.arg[1]),
                     SERVICE_CATALOG(resourcesUrl(gate.arg[1]))}
           IN /\ Without(store, K) = Without(gate.before, K)
              /\ gate.pc = "resolved" => store = Without(gate.before, K)

\* clearCache(BaseUrl) returned: both entries of the base URL are gone, those
\* of the other base URL and the service, layer and query entries are there
C38_Witness ==
    /\ gate.op = "clearCache"
    /\ gate.pc = "resolved"
    /\ gate.arg = <<BaseUrl>>
    /\ DOMAIN gate.before = GateKeys
    /\ DOMAIN store = GateKeys \ {SERVICE_CATALOG(BaseUrl),
                                  SERVICE_CATALOG(resourcesUrl(BaseUrl))}

\* clearCache() returned after a call on a store with every entry
C38_WitnessAll ==
    /\ gate.op = "clearCache"
    /\ gate.pc = "resolved"
    /\ gate.arg = <<>>
    /\ DOMAIN gate.before = GateKeys
    /\ store = <<>>

(***************************************************************************)
(* Claims: getCatalog without cache                                        *)
(***************************************************************************)
\* a service task of walk w takes its descriptor from the cache in this step
ServedFromCache(w) ==
    \E i \in 0..MaxFolders :
      \E j \in DOMAIN lvl[w][i].tasks :
        /\ lvl[w][i].tasks[j].pc = "cacheGet"
        /\ j \in DOMAIN lvl'[w][i].tasks
        /\ lvl'[w][i].tasks[j].pc = "done"

listingOf(i) ==
    IF i = 0 THEN catalog.services ELSE catalog.inFolder[catalog.folders[i]]

\* what level i of walk w contributes, from the outcomes of its tasks taken
\* in the order of the listing (its placeholder, or nothing, without tasks)
ExpectedLevel(w, i) ==
    IF lvl[w][i].tasks # <<>>
    THEN [j \in 1..Len(listingOf(i)) |-> lvl[w][i].tasks[j].svc]
    ELSE lvl[w][i].out

\* C33: the list a walk returns is determined by the responses its tasks
\* received, whatever the order in which they settled: the services of a
\* listing are in the order of the listing (task j is the task of entry j),
\* after the root's come the folders' contributions in the order of the
\* folders array.
C33_OrderIndependent ==
    \A w \in WalkIds :
        Walked(w) =>
          /\ \A i \in 0..Len(walk[w].folders) :
               \A j \in DOMAIN lvl[w][i].tasks :
                 /\ Len(lvl[w][i].tasks) = Len(listingOf(i))
                 /\ lvl[w][i].tasks[j].svc.name = listingOf(i)[j].name
          /\ walk[w].services
               = ExpectedLevel(w, 0)
                   \o flatten([i \in 1..Len(catalog.folders) |-> ExpectedLevel(w, i)])

\* a walk returned the five records of the server in the order s1, s3, s2, s4,
\* G, the second service of the root having got its details from the network
\* and the first its verdict from the prober
C33_Witness ==
    \E w \in WalkIds :
        /\ Walked(w)
        /\ [n \in DOMAIN walk[w].services |-> walk[w].services[n].name]
             = <<"s1", "s3", "s2", "s4", "G">>
        /\ lvl[w][0].tasks[1].probed # <<>>
        /\ lvl[w][0].tasks[2].probed = <<>>

(***************************************************************************)
(* Claims: termination                                                     *)
(***************************************************************************)
ResSettled == res.pc \in {"resolved", "rejected"}

\* C34: every getResourceCatalog call, and every getCatalog call (the one
\* inside it), settles at last, given that every request and every cache
\* operation completes: no call waits forever on a sub-task that failed, was
\* cancelled or rejected.
C34_CallsSettle ==
    /\ (res.pc # "idle") ~> ResSettled
    /\ (walk[InnerWalk].pc # "idle") ~> Settled(InnerWalk)

\* getResourceCatalog returned although a detail request of the walk went to
\* the prober and a layer request failed
C34_Witness ==
    /\ res.pc = "resolved"
    /\ res.failed # {}
    /\ \E i \in 0..MaxFolders :
         \E j \in DOMAIN lvl[InnerWalk][i].tasks :
           lvl[InnerWalk][i].tasks[j].probed # <<>>

\* getResourceCatalog rejected after getCatalog was cancelled
C34_WitnessRejected ==
    /\ res.pc = "rejected"
    /\ hist[InnerWalk].cancelledAt # "never"

(***************************************************************************)
(* Claims: the consistency of a status record                              *)
(***************************************************************************)
\* C36: in every status record checkServiceStatus returns, accessible implies
\* requiresAuth=false, isEmpty=false and no error; requiresAuth and isEmpty
\* are never both true; redirected implies requiresAuth; and a record that is
\* not accessible carries an error.
C36_StatusConsistent ==
    psettled = "resolved" =>
      LET v == pverdict[1] IN
        /\ v.accessible => (~v.requiresAuth /\ ~v.isEmpty /\ v.error = Null)
        /\ ~(v.requiresAuth /\ v.isEmpty)
        /\ v.redirected => v.requiresAuth
        /\ ~v.accessible => v.error # Null

\* the prober returned its verdict on an empty body: not accessible, empty,
\* with its error
C36_Witness ==
    /\ psettled = "resolved"
    /\ presp.kind = "response"
    /\ falsy(presp.body)
    /\ pverdict[1].isEmpty
    /\ ~pverdict[1].accessible

\* the prober found a service accessible
C36_WitnessAccessible ==
    /\ psettled = "resolved"
    /\ pverdict[1].accessible

(***************************************************************************)
(* Claims: services with layers need no token                              *)
(***************************************************************************)
\* the record carries layers or tables
CarriesLayers(r) == r.layers # <<>> \/ r.tables # <<>>

\* C37: every Service record of a walk's list that carries layers or tables
\* has requiresAuth=false, isEmpty=false and no error; so every Resource
\* record getResourceCatalog returns, the records of failed detail requests
\* included, has requiresAuth=false.
C37_LayeredServicesOpen ==
    /\ \A n \in DOMAIN walk[InnerWalk].services :
         LET r == walk[InnerWalk].services[n] IN
           CarriesLayers(r) => (~r.requiresAuth /\ ~r.isEmpty /\ r.error = <<>>)
    /\ res.pc = "resolved" =>
         \A n \in DOMAIN res.resources : ~res.resources[n].requiresAuth

\* getResourceCatalog returned the record of a failed detail request, for a
\* walk whose list also holds a service that requires a token
C37_Witness ==
    /\ res.pc = "resolved" /\ ~res.fromCache
    /\ \E n \in DOMAIN res.resources :
         res.resources[n].error = <<"Could not fetch details">>
    /\ \E n \in DOMAIN walk[InnerWalk].services :
         walk[InnerWalk].services[n].requiresAuth

(***************************************************************************)
(* Claims: failures of the backing store                                   *)
(***************************************************************************)
\* C35: a rejection of the backing store during CacheService.get, set,
\* delete, clear or keys never reaches the caller: the method returns (get
\* with null, keys with an empty list); a getCatalog call with useCache whose
\* cache lookup or cache write met such a rejection goes on as after a miss:
\* it is not served from the cache, it rejects only when a root request
\* failed, and it returns the list it walked.
C35_StoreFailureSwallowed ==
    /\ cproc[FaultCaller].pc # "rejected"
    /\ (cproc[FaultCaller].pc = "returned" /\ cproc[FaultCaller].threw) =>
         /\ cproc[FaultCaller].op = "get" => cproc[FaultCaller].result = Null
         /\ cproc[FaultCaller].op = "keys" => cproc[FaultCaller].list = {}
    /\ hist[FaultWalk].cacheFailed =>
         /\ ~walk[FaultWalk].fromCache
         /\ walk[FaultWalk].pc = "rejected" => hist[FaultWalk].cause = "fail"
         /\ walk[FaultWalk].pc = "resolved" =>
              /\ walk[FaultWalk].services = OwnReduction(FaultWalk)
              /\ ~hist[FaultWalk].rootFailed =>
                   Len(walk[FaultWalk].services) = Len(catalog.services)

\* a get of the caller returned null after the store rejected, and the
\* getCatalog call whose lookup met a rejection, while the entry of an earlier
\* session was in the store, returned the list it walked
C35_Witness ==
    /\ cproc[FaultCaller].pc = "returned"
    /\ cproc[FaultCaller].op = "get"
    /\ cproc[FaultCaller].threw
    /\ hist[FaultWalk].cacheFailed
    /\ walk[FaultWalk].pc = "resolved"
    /\ walk[FaultWalk].useCache
    /\ walk[FaultWalk].services # <<>>
    /\ hist[FaultWalk].rootRequests >= 1

\* C39: for every query result with a features array, the GeoJSON export
\* read back from its JSON text is a FeatureCollection with as many
\* features as the query result has, and the properties of its i-th feature
\* are the attributes of the i-th feature of the query result.
C39_ExportRoundTrip ==
    exp.pc = "parsed" =>
        LET original == get(exp.queryResult, "features").e
            collection == exp.parsed[1]
            features == get(collection, "features")
        IN /\ get(collection, "type") = jsString("FeatureCollection")
           /\ features.t = "array"
           /\ Len(features.e) = Len(original)
           /\ \A i \in DOMAIN original :
                get(features.e[i], "properties") = get(original[i], "attributes")

\* a read-back export of two features, one without geometry, one with a null
\* attribute, of a query result that has no spatial reference
C39_Witness ==
    /\ exp.pc = "parsed"
    /\ LET original == get(exp.queryResult, "features").e
       IN /\ Len(original) = 2
          /\ get(original[1], "geometry") = jsUndefined
          /\ truthy(get(original[2], "geometry"))
          /\ get(get(original[2], "attributes"), "NAME") = jsNull
          /\ get(exp.queryResult, "spatialReference") = jsUndefined
          /\ get(exp.geojson[1], "crs") = jsUndefined
          /\ exp.json[1] # stringify_undefinedAsNull(exp.geojson[1])
====
